---- MODULE Spec2Model ----
(***************************************************************************)
(* A model of the P2P academic library's reputation subsystem (score,      *)
(* classification, throttling, aggregation over the in-memory store) and   *)
(* of its query engine (relevance, filters, sorting, pagination).          *)
(*                                                                         *)
(* Representation choices                                                  *)
(*  - Go's int is 64 bits wide; every integer of the model stays far below *)
(*    2^63, so plain integers are used.                                    *)
(*  - A float64 is modelled by the exact rational it stands for, a record  *)
(*    [n |-> numerator, d |-> denominator] in lowest terms with d > 0.     *)
(*  - The store's maps hold pointers.  A User object lives in userObj      *)
(*    under its ID from allocation on; users is the key set of m.users,    *)
(*    and m.users[id] always points at the object userObj[id].             *)
(***************************************************************************)
EXTENDS Integers, Sequences, FiniteSets, TLC

VARIABLES
    users,      \* key set of MemoryStore.users
    userObj,    \* the User objects, by ID
    nEvents,    \* how many uploads, downloads and ratings have been recorded so far
    ret,        \* what the last completed operation returned
    recalc,     \* the RecalculateAll call in progress, when it runs stepwise
    resources,  \* key set of MemoryStore.resources
    resObj,     \* the Resource objects, by ID
    inflight    \* the RecordUpload or RecordDownload call in progress, when it runs stepwise

vars == <<users, userObj, nEvents, ret, recalc, resources, resObj, inflight>>

(***************************************************************************)
(* Bounds of the model                                                     *)
(***************************************************************************)
MaxUsers == 2

MaxEvents == 3

MaxRunUploads == 26

MaxRunDownloads == 2

MaxQueryEvents == 2

MaxResources == 2

MaxSearchEvents == 2

MaxRaceEvents == 1

MaxPagedResources == 3

MaxEngagement == 1

MaxSuggestResources == 6

MaxLookupResources == 3

MaxFloorDownloads == 101

MaxRatedResources == 2

MaxRateEvents == 5

MaxDriftDownloads == 103

MaxDriftUploads == 2

MaxWriters == 2

MaxUploadedResources == 3

MaxDownloadResources == 2

MaxDownloadEvents == 4

MaxRatings == 8

MaxRankedResources == 3

MaxRankEvents == 2

MaxStatUsers == 7

MaxRequired == 1

MaxCalcUploads == 5

MaxCalcDownloads == 110

RatingSteps == 20

MaxAbsScore == 60

(***************************************************************************)
(* Program constants (models package)                                      *)
(***************************************************************************)
ContributorThreshold == 50

NeutralThreshold == 0

LowReputation == -100

UploadWeight == 2

DownloadWeight == 1

RatingWeight == 10

MinRating == 1

MaxRating == 5

ClassContributor == "Contributor"

ClassNeutral == "Neutral"

ClassLeecher == "Leecher"

(***************************************************************************)
(* Rational arithmetic standing for float64 arithmetic                     *)
(***************************************************************************)
Abs(x) == IF x < 0 THEN -x ELSE x

RECURSIVE GCD(_, _)
GCD(a, b) == IF b = 0 THEN a ELSE GCD(b, a % b)

Rat(n, d) ==
    LET g == GCD(Abs(n), Abs(d))
        s == IF d < 0 THEN -1 ELSE 1
    IN  [n |-> (s * n) \div g, d |-> (s * d) \div g]

RatInt(k) == [n |-> k, d |-> 1]

RatAdd(a, b) == Rat(a.n * b.d + b.n * a.d, a.d * b.d)

RatMul(a, b) == Rat(a.n * b.n, a.d * b.d)

RatDiv(a, b) == Rat(a.n * b.d, a.d * b.n)

RatLess(a, b) == a.n * b.d < b.n * a.d

RatLeq(a, b) == a.n * b.d <= b.n * a.d

\* Go's int(x) on a float64: truncation toward zero.
TruncInt(r) == IF r.n >= 0 THEN r.n \div r.d ELSE -((-r.n) \div r.d)

(***************************************************************************)
(* Score engine and classifier (pure functions)                            *)
(***************************************************************************)
CalculateReputationNoTrunc(uploads, downloads, avgRating) ==
    LET uploadScore == uploads * UploadWeight
        downloadPenalty == downloads * DownloadWeight
        ratingBonus == TruncInt(RatAdd(RatMul(avgRating, RatInt(RatingWeight)), Rat(1, 2)))
        score == uploadScore - downloadPenalty + ratingBonus
    IN  IF score < LowReputation THEN LowReputation ELSE score

CalculateReputation(uploads, downloads, avgRating) ==
    LET uploadScore == uploads * UploadWeight
        downloadPenalty == downloads * DownloadWeight
        ratingBonus == TruncInt(RatMul(avgRating, RatInt(RatingWeight)))
        score == uploadScore - downloadPenalty + ratingBonus
    IN  IF score < LowReputation THEN LowReputation ELSE score

GetClassificationForScoreInclusive(score) ==
    IF score >= ContributorThreshold THEN ClassContributor
    ELSE IF score >= NeutralThreshold THEN ClassNeutral
    ELSE ClassLeecher

GetClassificationForScore(score) ==
    IF score > ContributorThreshold THEN ClassContributor
    ELSE IF score >= NeutralThreshold THEN ClassNeutral
    ELSE ClassLeecher

GetClassification(score) ==
    IF score > ContributorThreshold THEN ClassContributor
    ELSE IF score >= NeutralThreshold THEN ClassNeutral
    ELSE ClassLeecher

GetThrottleMultiplierSwapped(classification) ==
    IF classification = ClassContributor THEN Rat(10, 10)
    ELSE IF classification = ClassNeutral THEN Rat(3, 10)
    ELSE IF classification = ClassLeecher THEN Rat(7, 10)
    ELSE Rat(5, 10)

\* The multiplier as an exact fraction: 1.0, 0.7, 0.3 and, for any other tier, 0.5.
GetThrottleMultiplier(classification) ==
    IF classification = ClassContributor THEN Rat(10, 10)
    ELSE IF classification = ClassNeutral THEN Rat(7, 10)
    ELSE IF classification = ClassLeecher THEN Rat(3, 10)
    ELSE Rat(5, 10)

(***************************************************************************)
(* Errors (errors package)                                                 *)
(***************************************************************************)
Nil == [kind |-> "nil"]

NewNotFoundError(resourceType, identifier) ==
    [kind |-> "NotFoundError", ResourceType |-> resourceType, Identifier |-> identifier]

ErrUserNotFound == [kind |-> "ErrUserNotFound"]

ErrUserAlreadyExists == [kind |-> "ErrUserAlreadyExists"]

NewOperationError(operation, reason, err) ==
    [kind |-> "OperationError", Operation |-> operation, Reason |-> reason, Err |-> err]

NewReputationError(userID, required, current, action) ==
    [kind |-> "ReputationError", UserID |-> userID, Required |-> required,
     Current |-> current, Action |-> action]

(***************************************************************************)
(* User model (models package)                                             *)
(***************************************************************************)
\* Identifiers CreateUser can issue, and the identifiers a caller can pass:
\* 0 is an identifier that is never issued.
UserIDs == 1 .. MaxUsers

AnyUserID == 0 .. MaxUsers

NewUser(id) ==
    [ID |-> id,
     Reputation |-> 0,
     Classification |-> ClassNeutral,
     TotalUploads |-> 0,
     TotalDownloads |-> 0,
     AverageRating |-> RatInt(0)]

(***************************************************************************)
(* MemoryStore: user storage.  keys is the key set of m.users.             *)
(***************************************************************************)
StoreCreate(keys, id) ==
    IF id \in keys
    THEN [users |-> keys, err |-> ErrUserAlreadyExists]
    ELSE [users |-> keys \cup {id}, err |-> Nil]

StoreGetUser(keys, id) ==
    IF id \notin keys
    THEN [found |-> FALSE, err |-> NewNotFoundError("user", id)]
    ELSE [found |-> TRUE, err |-> Nil]

StoreUpdateUserUpsert(keys, id) ==
    [users |-> keys \cup {id}, err |-> Nil]

StoreUpdateUser(keys, id) ==
    IF id \notin keys
    THEN [users |-> keys, err |-> ErrUserNotFound]
    ELSE [users |-> keys, err |-> Nil]

StoreDeleteUser(keys, id) ==
    IF id \notin keys
    THEN [users |-> keys, err |-> ErrUserNotFound]
    ELSE [users |-> keys \ {id}, err |-> Nil]

\* The sequences GetAllUsers can return: the map's keys in any order.
RECURSIVE Perms(_)
Perms(S) ==
    IF S = {} THEN {<<>>} ELSE UNION {{<<x>> \o p : p \in Perms(S \ {x})} : x \in S}

StoreGetAllUsers(keys) == Perms(keys)

(***************************************************************************)
(* UserService                                                             *)
(***************************************************************************)
UpdateReputationByPointerStaleTier(user, delta) ==
    [user EXCEPT !.Reputation = @ + delta]

UpdateReputationByPointer(user, delta) ==
    LET reputation == user.Reputation + delta
    IN  [user EXCEPT !.Reputation = reputation,
                     !.Classification = GetClassification(reputation)]

\* The ratings a caller passes to UpdateRatingReceived: the lowest and the
\* highest valid rating and a half-star one (1, 4.5 and 5 stars).
RatingInputs == {RatInt(MinRating), Rat(9, 2), RatInt(MaxRating)}

NoRet == [op |-> "none"]

Idle == [pc |-> "idle", list |-> <<>>, i |-> 1, skipped |-> {}]

NoCall == [pc |-> "idle"]

\* What RecordUpload, RecordDownload and UpdateRatingReceived write through
\* the pointer GetUser returned, before they call UpdateUser.
UploadRecordedUnweighted(old) ==
    LET counted == [old EXCEPT !.TotalUploads = @ + 1]
        delta == 1
    IN  UpdateReputationByPointer(counted, delta)

UploadRecorded(old) ==
    LET counted == [old EXCEPT !.TotalUploads = @ + 1]
        delta == UploadWeight
    IN  UpdateReputationByPointer(counted, delta)

DownloadRecordedAsGain(old) ==
    LET counted == [old EXCEPT !.TotalDownloads = @ + 1]
        delta == DownloadWeight
    IN  UpdateReputationByPointer(counted, delta)

DownloadRecorded(old) ==
    LET counted == [old EXCEPT !.TotalDownloads = @ + 1]
        delta == -DownloadWeight
    IN  UpdateReputationByPointer(counted, delta)

RatingRecorded(old, rating) ==
    LET totalRatings == IF old.TotalUploads = 0 THEN 1 ELSE old.TotalUploads
        currentSum == RatMul(old.AverageRating, RatInt(totalRatings))
        newSum == RatAdd(currentSum, rating)
        averaged == [old EXCEPT !.AverageRating = RatDiv(newSum, RatInt(totalRatings + 1))]
        delta == TruncInt(RatDiv(RatMul(rating, RatInt(RatingWeight)), RatInt(5)))
    IN  UpdateReputationByPointer(averaged, delta)

\* uuid.New() yields an identifier no account has had: the next unused one.
CreateUser ==
    /\ LET id == Cardinality(DOMAIN userObj) + 1
           user == NewUser(id)
           c == StoreCreate(users, id)
       IN  /\ userObj' = (id :> user) @@ userObj
           /\ users' = c.users
           /\ ret' = [op |-> "CreateUser", userID |-> id,
                      err |-> IF c.err # Nil
                              THEN NewOperationError("CreateUser", "failed to store user", c.err)
                              ELSE Nil]
    /\ UNCHANGED <<resources, resObj, nEvents, recalc, inflight>>

\* RecordUpload on the store state (keys, objs): the state it leaves and its error.
RecordUploadOn(keys, objs, userID) ==
    LET g == StoreGetUser(keys, userID)
    IN  IF g.err # Nil
        THEN [users |-> keys, userObj |-> objs, err |-> g.err]
        ELSE LET user == UploadRecorded(objs[userID])
                 u == StoreUpdateUser(keys, userID)
             IN  [users |-> u.users, userObj |-> [objs EXCEPT ![userID] = user],
                  err |-> u.err]

RecordUpload(userID) ==
    LET r == RecordUploadOn(users, userObj, userID)
    IN  /\ users' = r.users
        /\ userObj' = r.userObj
        /\ ret' = [op |-> "RecordUpload", userID |-> userID, err |-> r.err]
        /\ nEvents' = IF userID \in users THEN nEvents + 1 ELSE nEvents
        /\ UNCHANGED <<resources, resObj, recalc, inflight>>

\* RecordDownload on the store state (keys, objs): the state it leaves and its error.
RecordDownloadOn(keys, objs, userID) ==
    LET g == StoreGetUser(keys, userID)
    IN  IF g.err # Nil
        THEN [users |-> keys, userObj |-> objs, err |-> g.err]
        ELSE LET user == DownloadRecorded(objs[userID])
                 u == StoreUpdateUser(keys, userID)
             IN  [users |-> u.users, userObj |-> [objs EXCEPT ![userID] = user],
                  err |-> u.err]

RecordDownload(userID) ==
    LET r == RecordDownloadOn(users, userObj, userID)
    IN  /\ users' = r.users
        /\ userObj' = r.userObj
        /\ ret' = [op |-> "RecordDownload", userID |-> userID, err |-> r.err]
        /\ nEvents' = IF userID \in users THEN nEvents + 1 ELSE nEvents
        /\ UNCHANGED <<resources, resObj, recalc, inflight>>

UpdateRatingReceived(userID, rating) ==
    LET g == StoreGetUser(users, userID)
    IN  IF g.err # Nil
        THEN /\ ret' = [op |-> "UpdateRatingReceived", userID |-> userID, err |-> g.err]
             /\ UNCHANGED <<resources, resObj, users, userObj, nEvents, recalc, inflight>>
        ELSE /\ LET user == RatingRecorded(userObj[userID], rating)
                    u == StoreUpdateUser(users, userID)
                IN  /\ userObj' = [userObj EXCEPT ![userID] = user]
                    /\ users' = u.users
                    /\ ret' = [op |-> "UpdateRatingReceived", userID |-> userID, err |-> u.err]
             /\ nEvents' = nEvents + 1
             /\ UNCHANGED <<resources, resObj, recalc, inflight>>

(***************************************************************************)
(* ReputationService                                                       *)
(***************************************************************************)
\* The body of RecalculateAll's loop up to the UpdateUser call: the score and
\* the tier are written through the pointer the enumeration returned.
RecalculateUser(user) ==
    LET score == CalculateReputation(user.TotalUploads, user.TotalDownloads,
                                     user.AverageRating)
    IN  [user EXCEPT !.Reputation = score,
                     !.Classification = GetClassificationForScore(score)]

\* One iteration of RecalculateAll's loop on the account id, from the store
\* state (objs, keys): the failure of UpdateUser is ignored.
RecalculateStep(objs, keys, id) ==
    LET user == RecalculateUser(objs[id])
        u == StoreUpdateUser(keys, id)
    IN  [userObj |-> [objs EXCEPT ![id] = user], users |-> u.users]

RECURSIVE RecalculateLoopSkipLast(_, _, _, _)
RecalculateLoopSkipLast(list, i, objs, keys) ==
    IF i >= Len(list)
    THEN [userObj |-> objs, users |-> keys]
    ELSE LET s == RecalculateStep(objs, keys, list[i])
         IN  RecalculateLoopSkipLast(list, i + 1, s.userObj, s.users)

\* RecalculateAll's loop over the enumeration list, from its i-th element.
RECURSIVE RecalculateLoop(_, _, _, _)
RecalculateLoop(list, i, objs, keys) ==
    IF i > Len(list)
    THEN [userObj |-> objs, users |-> keys]
    ELSE LET s == RecalculateStep(objs, keys, list[i])
         IN  RecalculateLoop(list, i + 1, s.userObj, s.users)

RecalculateAll ==
    /\ recalc.pc = "idle"
    /\ \E list \in StoreGetAllUsers(users) :
          LET s == RecalculateLoop(list, 1, userObj, users)
          IN  /\ userObj' = s.userObj
              /\ users' = s.users
              /\ ret' = [op |-> "RecalculateAll", err |-> Nil]
    /\ UNCHANGED <<resources, resObj, nEvents, recalc, inflight>>

CalculateNotFoundAsZero(userID) ==
    /\ ret' = [op |-> "Calculate", userID |-> userID,
               val |-> IF userID \in users
                       THEN CalculateReputation(userObj[userID].TotalUploads,
                                                userObj[userID].TotalDownloads,
                                                userObj[userID].AverageRating)
                       ELSE 0,
               err |-> Nil]
    /\ UNCHANGED <<resources, resObj, users, userObj, nEvents, recalc, inflight>>

Calculate(userID) ==
    LET g == StoreGetUser(users, userID)
    IN  /\ ret' = IF g.err # Nil
                  THEN [op |-> "Calculate", userID |-> userID, val |-> 0, err |-> g.err]
                  ELSE [op |-> "Calculate", userID |-> userID,
                        val |-> CalculateReputation(userObj[userID].TotalUploads,
                                                    userObj[userID].TotalDownloads,
                                                    userObj[userID].AverageRating),
                        err |-> Nil]
        /\ UNCHANGED <<resources, resObj, users, userObj, nEvents, recalc, inflight>>

NoInfo == [UserID |-> 0]

GetUserReputation(userID) ==
    LET g == StoreGetUser(users, userID)
    IN  /\ ret' = IF g.err # Nil
                  THEN [op |-> "GetUserReputation", userID |-> userID, val |-> NoInfo,
                        err |-> g.err]
                  ELSE [op |-> "GetUserReputation", userID |-> userID,
                        val |-> [UserID |-> userID,
                                 Score |-> userObj[userID].Reputation,
                                 Classification |-> userObj[userID].Classification,
                                 Uploads |-> userObj[userID].TotalUploads,
                                 Downloads |-> userObj[userID].TotalDownloads,
                                 AverageRating |-> userObj[userID].AverageRating,
                                 Throttle |-> GetThrottleMultiplier(
                                                  userObj[userID].Classification)],
                        err |-> Nil]
        /\ UNCHANGED <<resources, resObj, users, userObj, nEvents, recalc, inflight>>

CheckAccessAllowedStrict(keys, objs, userID, requiredScore) ==
    LET g == StoreGetUser(keys, userID)
    IN  IF g.err # Nil THEN g.err
        ELSE IF objs[userID].Reputation <= requiredScore
        THEN NewReputationError(userID, requiredScore, objs[userID].Reputation,
                                "access resource")
        ELSE Nil

\* The error CheckAccessAllowed returns from the store state (keys, objs).
CheckAccessAllowedErr(keys, objs, userID, requiredScore) ==
    LET g == StoreGetUser(keys, userID)
    IN  IF g.err # Nil THEN g.err
        ELSE IF objs[userID].Reputation < requiredScore
        THEN NewReputationError(userID, requiredScore, objs[userID].Reputation,
                                "access resource")
        ELSE Nil

CheckAccessAllowed(userID, requiredScore) ==
    /\ ret' = [op |-> "CheckAccessAllowed", userID |-> userID,
               requiredScore |-> requiredScore,
               err |-> CheckAccessAllowedErr(users, userObj, userID, requiredScore)]
    /\ UNCHANGED <<resources, resObj, users, userObj, nEvents, recalc, inflight>>

GetThrottleSpeed(userID) ==
    LET g == StoreGetUser(users, userID)
    IN  /\ ret' = IF g.err # Nil
                  THEN [op |-> "GetThrottleSpeed", userID |-> userID, val |-> RatInt(0),
                        err |-> g.err]
                  ELSE [op |-> "GetThrottleSpeed", userID |-> userID,
                        val |-> GetThrottleMultiplier(userObj[userID].Classification),
                        err |-> Nil]
        /\ UNCHANGED <<resources, resObj, users, userObj, nEvents, recalc, inflight>>

\* Go's float64 (IEEE 754 binary64, round to nearest, ties to even) for the
\* one float64 computation whose operands are not small dyadic fractions:
\* the mean float64(totalScore) / float64(len(users)).  A finite value is
\*   (-1)^neg * (1 + mant[1]/B + mant[2]/B^2 + mant[3]/B^3 + mant[4]/B^4) * 2^exp
\* with B = 2^13: the 52 fraction bits in four digits, most significant first.
Float64Base == 2 ^ 13

Float64Zero == [class |-> "zero", neg |-> FALSE, exp |-> 0, mant |-> <<0, 0, 0, 0>>]

Float64NaN == [class |-> "NaN", neg |-> FALSE, exp |-> 0, mant |-> <<0, 0, 0, 0>>]

Float64Inf(neg) == [class |-> "Inf", neg |-> neg, exp |-> 0, mant |-> <<0, 0, 0, 0>>]

Float64Finite(neg, exp, mant) == [class |-> "finite", neg |-> neg, exp |-> exp, mant |-> mant]

\* Scales x / y into [1, 2): x / y = (result.x / result.y) * 2^result.e.
RECURSIVE Float64Normalise(_, _, _)
Float64Normalise(x, y, e) ==
    IF x >= 2 * y THEN Float64Normalise(x, 2 * y, e + 1)
    ELSE IF x < y THEN Float64Normalise(2 * x, y, e - 1)
    ELSE [x |-> x, y |-> y, e |-> e]

\* The next digit of r / y (r < y) and the remainder it leaves.
Float64Digit(r, y) == [d |-> (r * Float64Base) \div y, r |-> (r * Float64Base) % y]

\* Rounds the significand 1.mant, followed by the bit guard and by further
\* bits that are not all zero iff sticky, to 52 fraction bits.
Float64Round(neg, exp, mant, guard, sticky) ==
    IF guard = 1 /\ (sticky \/ mant[4] % 2 = 1)
    THEN LET k4 == mant[4] + 1
             k3 == mant[3] + k4 \div Float64Base
             k2 == mant[2] + k3 \div Float64Base
             k1 == mant[1] + k2 \div Float64Base
         IN  IF k1 \div Float64Base = 1
             THEN Float64Finite(neg, exp + 1, <<0, 0, 0, 0>>)
             ELSE Float64Finite(neg, exp, <<k1 % Float64Base, k2 % Float64Base,
                                            k3 % Float64Base, k4 % Float64Base>>)
    ELSE Float64Finite(neg, exp, mant)

\* float64(a) / float64(n) for integers a and n >= 0 that float64 holds exactly.
Float64Div(a, n) ==
    IF n = 0 THEN (IF a = 0 THEN Float64NaN ELSE Float64Inf(a < 0))
    ELSE IF a = 0 THEN Float64Zero
    ELSE LET s == Float64Normalise(Abs(a), n, 0)
             q1 == Float64Digit(s.x - s.y, s.y)
             q2 == Float64Digit(q1.r, s.y)
             q3 == Float64Digit(q2.r, s.y)
             q4 == Float64Digit(q3.r, s.y)
             guard == IF 2 * q4.r >= s.y THEN 1 ELSE 0
         IN  Float64Round(a < 0, s.e, <<q1.d, q2.d, q3.d, q4.d>>, guard,
                          2 * q4.r - guard * s.y # 0)

\* One iteration of GetNetworkStats' loop: the account's score is added to
\* the sum and the counter of its stored tier is incremented.
StatsStep(acc, user) ==
    LET c == user.Classification
    IN  [acc EXCEPT
            !.totalScore = @ + user.Reputation,
            !.Contributors = IF c = ClassContributor THEN @ + 1 ELSE @,
            !.Neutral = IF c = ClassNeutral THEN @ + 1 ELSE @,
            !.Leechers = IF c = ClassLeecher THEN @ + 1 ELSE @]

\* GetNetworkStats' loop over the list GetAllUsers returned, which holds the
\* map's keys in any order: front is the set of the loop's possible states
\* [rest |-> accounts still to come, acc |-> counters so far], and the result
\* is the set of counters the loop can end with.
RECURSIVE StatsLoop(_, _)
StatsLoop(front, objs) ==
    IF \A f \in front : f.rest = {}
    THEN {f.acc : f \in front}
    ELSE StatsLoop(UNION {{[rest |-> f.rest \ {id}, acc |-> StatsStep(f.acc, objs[id])] :
                              id \in f.rest} : f \in front}, objs)

\* The counters GetNetworkStats can hold after its loop.
StatsCounted(keys, objs) ==
    StatsLoop({[rest |-> keys,
                acc |-> [TotalUsers |-> Cardinality(keys), totalScore |-> 0,
                         Contributors |-> 0, Neutral |-> 0, Leechers |-> 0]]}, objs)

NetworkStatsNoGuard(acc) ==
    [TotalUsers |-> acc.TotalUsers,
     Contributors |-> acc.Contributors,
     Neutral |-> acc.Neutral,
     Leechers |-> acc.Leechers,
     AverageScore |-> Float64Div(acc.totalScore, acc.TotalUsers)]

\* The NetworkStats value built from the counters: the mean is computed only
\* for a non-empty enumeration and is the zero value otherwise.
NetworkStats(acc) ==
    [TotalUsers |-> acc.TotalUsers,
     Contributors |-> acc.Contributors,
     Neutral |-> acc.Neutral,
     Leechers |-> acc.Leechers,
     AverageScore |-> IF acc.TotalUsers > 0
                      THEN Float64Div(acc.totalScore, acc.TotalUsers)
                      ELSE Float64Zero]

GetNetworkStats ==
    /\ \E acc \in StatsCounted(users, userObj) :
          ret' = [op |-> "GetNetworkStats", val |-> NetworkStats(acc), err |-> Nil]
    /\ UNCHANGED <<resources, resObj, users, userObj, nEvents, recalc, inflight>>

(***************************************************************************)
(* The sequential system: one operation at a time on the user store         *)
(***************************************************************************)
Init ==
    /\ users = {}
    /\ userObj = <<>>
    /\ nEvents = 0
    /\ ret = NoRet
    /\ recalc = Idle
    /\ resources = {}
    /\ resObj = <<>>
    /\ inflight = NoCall

\* The exploration stops creating accounts at MaxUsers and recording events
\* at the given bound.
MayCreate == Cardinality(DOMAIN userObj) < MaxUsers

Within(bound) == nEvents < bound

\* Beyond MaxEvents the exploration follows one long run: the first account
\* uploads up to MaxRunUploads times and then downloads up to MaxRunDownloads
\* times, while nothing else has been recorded.
LongRun ==
    /\ 1 \in users
    /\ userObj[1].AverageRating = RatInt(0)
    /\ userObj[1].TotalDownloads <= MaxRunDownloads
    /\ \A id \in DOMAIN userObj \ {1} : userObj[id] = NewUser(id)

MayRecordUpload(userID) ==
    \/ Within(MaxEvents)
    \/ /\ userID = 1
       /\ LongRun
       /\ userObj[1].TotalDownloads = 0
       /\ userObj[1].TotalUploads < MaxRunUploads

MayRecordDownload(userID) ==
    \/ Within(MaxEvents)
    \/ /\ userID = 1
       /\ LongRun
       /\ userObj[1].TotalDownloads < MaxRunDownloads

Next ==
    \/ MayCreate /\ CreateUser
    \/ \E userID \in AnyUserID : MayRecordUpload(userID) /\ RecordUpload(userID)
    \/ \E userID \in AnyUserID : MayRecordDownload(userID) /\ RecordDownload(userID)
    \/ Within(MaxEvents) /\ \E userID \in AnyUserID, rating \in RatingInputs :
          UpdateRatingReceived(userID, rating)
    \/ RecalculateAll

Spec == Init /\ [][Next]_vars

(***************************************************************************)
(* RecalculateAll next to other callers of the store: it holds the store's *)
(* lock in GetAllUsers and in each UpdateUser only, so other operations    *)
(* run between its enumeration, its iterations and its return              *)
(***************************************************************************)
DeleteUser(id) ==
    LET d == StoreDeleteUser(users, id)
    IN  /\ users' = d.users
        /\ ret' = [op |-> "DeleteUser", userID |-> id, err |-> d.err]
        /\ UNCHANGED <<resources, resObj, userObj, nEvents, recalc, inflight>>

\* GetAllUsers: the list of pointers to the accounts stored at this moment.
RecalcEnumerate ==
    /\ recalc.pc = "idle"
    /\ \E list \in StoreGetAllUsers(users) :
          recalc' = [pc |-> "loop", list |-> list, i |-> 1, skipped |-> {}]
    /\ UNCHANGED <<resources, resObj, users, userObj, nEvents, ret, inflight>>

\* One iteration: skipped records the accounts whose UpdateUser failed.
RecalcIterate ==
    /\ recalc.pc = "loop"
    /\ recalc.i <= Len(recalc.list)
    /\ LET id == recalc.list[recalc.i]
           s == RecalculateStep(userObj, users, id)
       IN  /\ userObj' = s.userObj
           /\ users' = s.users
           /\ recalc' = [recalc EXCEPT
                             !.i = @ + 1,
                             !.skipped = IF StoreUpdateUser(users, id).err # Nil
                                         THEN @ \cup {id} ELSE @]
    /\ UNCHANGED <<resources, resObj, nEvents, ret, inflight>>

\* The loop is over: RecalculateAll returns nil.  The list and the skipped
\* accounts of the run stay on record until the next run.
RecalcReturn ==
    /\ recalc.pc = "loop"
    /\ recalc.i > Len(recalc.list)
    /\ ret' = [op |-> "RecalculateAll", err |-> Nil]
    /\ recalc' = [recalc EXCEPT !.pc = "idle"]
    /\ UNCHANGED <<resources, resObj, users, userObj, nEvents, inflight>>

NextBestEffort ==
    \/ MayCreate /\ CreateUser
    \/ Within(MaxRaceEvents) /\ \E userID \in AnyUserID : RecordUpload(userID)
    \/ Within(MaxRaceEvents) /\ \E userID \in AnyUserID : RecordDownload(userID)
    \/ Within(MaxRaceEvents) /\ \E userID \in AnyUserID, rating \in RatingInputs :
          UpdateRatingReceived(userID, rating)
    \/ \E id \in AnyUserID : DeleteUser(id)
    \/ RecalcEnumerate
    \/ RecalcIterate
    \/ RecalcReturn

SpecBestEffort == Init /\ [][NextBestEffort]_vars

(***************************************************************************)
(* GetNetworkStats next to RecordUpload and RecordDownload, statement by   *)
(* statement.  The store's lock is held inside GetUser, GetAllUsers and    *)
(* UpdateUser only; the fields of a User are read and written through the  *)
(* pointers those return, outside the lock.                                *)
(***************************************************************************)
\* user, err := s.store.GetUser(userID)
RecordBegin(op, userID) ==
    /\ inflight.pc = "idle"
    /\ LET g == StoreGetUser(users, userID)
       IN  IF g.err # Nil
           THEN /\ ret' = [op |-> op, userID |-> userID, err |-> g.err]
                /\ UNCHANGED <<inflight, nEvents>>
           ELSE /\ inflight' = [pc |-> "count", op |-> op, userID |-> userID]
                /\ nEvents' = nEvents + 1
                /\ UNCHANGED ret
    /\ UNCHANGED <<users, userObj, recalc, resources, resObj>>

\* user.TotalUploads++ or user.TotalDownloads++
RecordCount ==
    /\ inflight.pc = "count"
    /\ userObj' = [userObj EXCEPT ![inflight.userID] =
                      IF inflight.op = "RecordUpload"
                      THEN [@ EXCEPT !.TotalUploads = @ + 1]
                      ELSE [@ EXCEPT !.TotalDownloads = @ + 1]]
    /\ inflight' = [inflight EXCEPT !.pc = "score"]
    /\ UNCHANGED <<users, nEvents, ret, recalc, resources, resObj>>

\* UpdateReputationByPointer: user.Reputation += delta
RecordScore ==
    /\ inflight.pc = "score"
    /\ LET delta == IF inflight.op = "RecordUpload" THEN UploadWeight ELSE -DownloadWeight
       IN  userObj' = [userObj EXCEPT ![inflight.userID].Reputation = @ + delta]
    /\ inflight' = [inflight EXCEPT !.pc = "tier"]
    /\ UNCHANGED <<users, nEvents, ret, recalc, resources, resObj>>

\* UpdateReputationByPointer: user.Classification = GetClassification(user.Reputation)
RecordTier ==
    /\ inflight.pc = "tier"
    /\ userObj' = [userObj EXCEPT ![inflight.userID].Classification =
                      GetClassification(userObj[inflight.userID].Reputation)]
    /\ inflight' = [inflight EXCEPT !.pc = "update"]
    /\ UNCHANGED <<users, nEvents, ret, recalc, resources, resObj>>

\* return s.store.UpdateUser(user)
RecordReturn ==
    /\ inflight.pc = "update"
    /\ LET u == StoreUpdateUser(users, inflight.userID)
       IN  /\ users' = u.users
           /\ ret' = [op |-> inflight.op, userID |-> inflight.userID, err |-> u.err]
    /\ inflight' = NoCall
    /\ UNCHANGED <<userObj, nEvents, recalc, resources, resObj>>

\* users, err := s.store.GetAllUsers(); stats and totalScore are initialised.
\* seen records, account by account, the field values the pass reads.
StatsEnumerate ==
    /\ recalc.pc = "idle"
    /\ \E list \in StoreGetAllUsers(users) :
          recalc' = [pc |-> "stats", list |-> list, i |-> 1, skipped |-> {},
                     score |-> FALSE, seen |-> <<>>,
                     acc |-> [TotalUsers |-> Len(list), totalScore |-> 0,
                              Contributors |-> 0, Neutral |-> 0, Leechers |-> 0]]
    /\ UNCHANGED <<users, userObj, nEvents, ret, resources, resObj, inflight>>

\* totalScore += int(user.Reputation)
StatsReadScore ==
    /\ recalc.pc = "stats"
    /\ recalc.i <= Len(recalc.list)
    /\ ~recalc.score
    /\ LET id == recalc.list[recalc.i]
       IN  recalc' = [recalc EXCEPT
                         !.score = TRUE,
                         !.seen = Append(@, [ID |-> id,
                                             Reputation |-> userObj[id].Reputation,
                                             Classification |-> ""])]
    /\ UNCHANGED <<users, userObj, nEvents, ret, resources, resObj, inflight>>

\* switch user.Classification { ... }, which ends the iteration
StatsReadTier ==
    /\ recalc.pc = "stats"
    /\ recalc.i <= Len(recalc.list)
    /\ recalc.score
    /\ LET id == recalc.list[recalc.i]
           read == [recalc.seen[recalc.i] EXCEPT
                        !.Classification = userObj[id].Classification]
       IN  recalc' = [recalc EXCEPT
                         !.score = FALSE,
                         !.i = @ + 1,
                         !.seen[recalc.i] = read,
                         !.acc = StatsStep(@, read)]
    /\ UNCHANGED <<users, userObj, nEvents, ret, resources, resObj, inflight>>

\* The loop is over: the mean is computed and the statistics are returned.
\* What the pass read stays on record until the next pass.
StatsReturn ==
    /\ recalc.pc = "stats"
    /\ recalc.i > Len(recalc.list)
    /\ ret' = [op |-> "GetNetworkStats", val |-> NetworkStats(recalc.acc), err |-> Nil]
    /\ recalc' = [recalc EXCEPT !.pc = "idle"]
    /\ UNCHANGED <<users, userObj, nEvents, resources, resObj, inflight>>

NextRace ==
    \/ MayCreate /\ CreateUser
    \/ /\ Within(MaxRaceEvents)
       /\ \E op \in {"RecordUpload", "RecordDownload"}, userID \in AnyUserID :
             RecordBegin(op, userID)
    \/ RecordCount
    \/ RecordScore
    \/ RecordTier
    \/ RecordReturn
    \/ StatsEnumerate
    \/ StatsReadScore
    \/ StatsReadTier
    \/ StatsReturn

SpecRace == Init /\ [][NextRace]_vars

(***************************************************************************)
(* TestNetworkStats' scenario on a store of up to MaxStatUsers accounts:   *)
(* the first account uploads 30 times, then the second uploads 10 times,   *)
(* then the third downloads 50 times; the statistics are read at any point *)
(***************************************************************************)
TestUploadsUser1 == 30

TestUploadsUser2 == 10

TestDownloadsUser3 == 50

NextStats ==
    \/ Cardinality(DOMAIN userObj) < MaxStatUsers /\ CreateUser
    \/ /\ {1, 2, 3} \subseteq users
       /\ userObj[1].TotalUploads < TestUploadsUser1
       /\ RecordUpload(1)
    \/ /\ {1, 2, 3} \subseteq users
       /\ userObj[1].TotalUploads = TestUploadsUser1
       /\ userObj[2].TotalUploads < TestUploadsUser2
       /\ RecordUpload(2)
    \/ /\ {1, 2, 3} \subseteq users
       /\ userObj[2].TotalUploads = TestUploadsUser2
       /\ userObj[3].TotalDownloads < TestDownloadsUser3
       /\ RecordDownload(3)
    \/ GetNetworkStats

SpecStats == Init /\ [][NextStats]_vars

(***************************************************************************)
(* The sequential system with its queries                                  *)
(***************************************************************************)
NextQuery ==
    \/ MayCreate /\ CreateUser
    \/ Within(MaxQueryEvents) /\ \E userID \in AnyUserID : RecordUpload(userID)
    \/ Within(MaxQueryEvents) /\ \E userID \in AnyUserID : RecordDownload(userID)
    \/ Within(MaxQueryEvents) /\ \E userID \in AnyUserID, rating \in RatingInputs :
          UpdateRatingReceived(userID, rating)
    \/ \E userID \in AnyUserID : Calculate(userID)
    \/ \E userID \in AnyUserID : GetUserReputation(userID)
    \/ \E userID \in AnyUserID, requiredScore \in -MaxRequired .. MaxRequired :
          CheckAccessAllowed(userID, requiredScore)
    \/ \E userID \in AnyUserID : GetThrottleSpeed(userID)

SpecQuery == Init /\ [][NextQuery]_vars

(***************************************************************************)
(* Throttling: the sequential system with its long run, the two queries    *)
(* that report a multiplier, and GetThrottleMultiplier called on its own   *)
(***************************************************************************)
\* The three tiers, the zero value of the type and a value that is no tier.
ClassificationInputs == {ClassContributor, ClassNeutral, ClassLeecher, "", "Unknown"}

CallGetThrottleMultiplier(classification) ==
    /\ ret' = [op |-> "GetThrottleMultiplier", classification |-> classification,
               val |-> GetThrottleMultiplier(classification)]
    /\ UNCHANGED <<users, userObj, nEvents, recalc, resources, resObj, inflight>>

\* A query changes nothing another operation reads, so the exploration
\* takes it as the last operation of a behaviour.
Queried == ret.op \in {"GetUserReputation", "GetThrottleSpeed", "GetThrottleMultiplier"}

NextThrottle ==
    \/ ~Queried /\ MayCreate /\ CreateUser
    \/ \E userID \in AnyUserID :
          ~Queried /\ MayRecordUpload(userID) /\ RecordUpload(userID)
    \/ \E userID \in AnyUserID :
          ~Queried /\ MayRecordDownload(userID) /\ RecordDownload(userID)
    \/ ~Queried /\ Within(MaxEvents) /\ \E userID \in AnyUserID, rating \in RatingInputs :
          UpdateRatingReceived(userID, rating)
    \/ ~Queried /\ RecalculateAll
    \/ ~Queried /\ \E userID \in AnyUserID : GetUserReputation(userID)
    \/ ~Queried /\ \E userID \in AnyUserID : GetThrottleSpeed(userID)
    \/ ~Queried /\ \E classification \in ClassificationInputs :
          CallGetThrottleMultiplier(classification)

SpecThrottle == Init /\ [][NextThrottle]_vars

(***************************************************************************)
(* Strings: a Go string is the sequence of its characters, each a          *)
(* one-character string                                                    *)
(***************************************************************************)
\* unicode.ToLower on the characters the model's strings are made of.
ToLowerChar(c) ==
    CASE c = "A" -> "a"
      [] c = "B" -> "b"
      [] c = "D" -> "d"
      [] c = "F" -> "f"
      [] c = "P" -> "p"
      [] OTHER -> c

ToLower(s) == [i \in 1 .. Len(s) |-> ToLowerChar(s[i])]

RECURSIVE TrimLeft(_)
TrimLeft(s) == IF s # <<>> /\ Head(s) = " " THEN TrimLeft(Tail(s)) ELSE s

RECURSIVE TrimRight(_)
TrimRight(s) ==
    IF s # <<>> /\ s[Len(s)] = " " THEN TrimRight(SubSeq(s, 1, Len(s) - 1)) ELSE s

TrimSpace(s) == TrimRight(TrimLeft(s))

\* strings.Contains: substr occurs in s; the empty string occurs in every string.
Contains(s, substr) ==
    \E i \in 0 .. Len(s) - Len(substr) : SubSeq(s, i + 1, i + Len(substr)) = substr

\* strings.EqualFold: equal under simple case folding, which on these
\* characters is equality of the lower-cased strings.
EqualFold(s, t) == ToLower(s) = ToLower(t)

\* filepath.Ext: the suffix that starts at the last dot, empty without a dot.
Ext(filename) ==
    LET dots == {i \in 1 .. Len(filename) : filename[i] = "."}
    IN  IF dots = {} THEN <<>>
        ELSE SubSeq(filename, CHOOSE i \in dots : \A j \in dots : j <= i, Len(filename))

(***************************************************************************)
(* Resource model (models package)                                         *)
(***************************************************************************)
MaxFileSize == 104857600

TypePDF == "pdf"

TypeDocument == "document"

TypePresentation == "presentation"

TypeSpreadsheet == "spreadsheet"

TypeOther == "other"

AllowedFileTypes ==
    {<<".", "p", "d", "f">>, <<".", "d", "o", "c">>, <<".", "d", "o", "c", "x">>,
     <<".", "p", "p", "t", "x">>, <<".", "x", "l", "s", "x">>, <<".", "t", "x", "t">>,
     <<".", "m", "d">>}

IsValidRating(r) == RatLeq(RatInt(MinRating), r) /\ RatLeq(r, RatInt(MaxRating))

IsValidFileType(ext) == ext \in AllowedFileTypes

getResourceType(ext) ==
    IF ext = <<".", "p", "d", "f">> THEN TypePDF
    ELSE IF ext \in {<<".", "d", "o", "c">>, <<".", "d", "o", "c", "x">>} THEN TypeDocument
    ELSE IF ext \in {<<".", "p", "p", "t">>, <<".", "p", "p", "t", "x">>} THEN TypePresentation
    ELSE IF ext \in {<<".", "x", "l", "s">>, <<".", "x", "l", "s", "x">>} THEN TypeSpreadsheet
    ELSE TypeOther

\* NewResource, with the content id the hash of filename and clock yields.
NewResource(cid, filename, size, uploadedBy) ==
    [ID |-> cid,
     Filename |-> filename,
     Extension |-> ToLower(Ext(filename)),
     Size |-> size,
     Type |-> getResourceType(ToLower(Ext(filename))),
     Title |-> <<>>,
     Subject |-> <<>>,
     Tags |-> <<>>,
     UploadedBy |-> uploadedBy,
     AvailableOn |-> <<>>,
     TotalRatings |-> 0,
     AverageRating |-> RatInt(0),
     RatingSum |-> RatInt(0),
     DownloadCount |-> 0]

AddRatingUnchecked(r, rating) ==
    LET sum == RatAdd(r.RatingSum, rating)
    IN  [r EXCEPT !.TotalRatings = @ + 1,
                  !.RatingSum = sum,
                  !.AverageRating = RatDiv(sum, RatInt(r.TotalRatings + 1))]

AddRating(r, rating) ==
    IF ~IsValidRating(rating) THEN r
    ELSE LET sum == RatAdd(r.RatingSum, rating)
         IN  [r EXCEPT !.TotalRatings = @ + 1,
                       !.RatingSum = sum,
                       !.AverageRating = RatDiv(sum, RatInt(r.TotalRatings + 1))]

(***************************************************************************)
(* Resource storage (store package) and further errors                     *)
(***************************************************************************)
ErrAlreadyExists == [kind |-> "ErrAlreadyExists"]

ErrInvalidFileType == [kind |-> "ErrInvalidFileType"]

ErrFileTooLarge == [kind |-> "ErrFileTooLarge"]

NewValidationError(field, message) ==
    [kind |-> "ValidationError", Field |-> field, Message |-> message]

StoreStoreOverwriting(keys, id) ==
    [resources |-> keys \cup {id}, err |-> Nil]

StoreStore(keys, id) ==
    IF id \in keys
    THEN [resources |-> keys, err |-> ErrAlreadyExists]
    ELSE [resources |-> keys \cup {id}, err |-> Nil]

StoreGet(keys, id) ==
    IF id \notin keys
    THEN [found |-> FALSE, err |-> NewNotFoundError("resource", id)]
    ELSE [found |-> TRUE, err |-> Nil]

\* The sequences GetAll can return: the map's keys in any order.
StoreGetAll(keys) == Perms(keys)

(***************************************************************************)
(* LibraryService and the rating handler                                   *)
(***************************************************************************)
validateResource(resource) ==
    IF resource.Filename = <<>>
    THEN NewValidationError("filename", "filename is required")
    ELSE IF resource.Size <= 0
    THEN NewValidationError("size", "invalid file size")
    ELSE IF resource.Size > MaxFileSize
    THEN ErrFileTooLarge
    ELSE IF ~IsValidFileType(resource.Extension)
    THEN ErrInvalidFileType
    ELSE Nil

\* The content ids NewResource can compute for a filename: an id no resource
\* has, or, when the clock reads the same as at an earlier upload of the same
\* filename, the id of that resource.
ContentIDs(filename) ==
    {Cardinality(DOMAIN resObj) + 1}
        \cup {id \in resources : resObj[id].Filename = filename}

\* LibraryService.Upload of the resource the caller built with NewResource
\* and completed with a title and a subject.
Upload(filename, size, uploadedBy, title, subject) ==
    \E cid \in ContentIDs(filename) :
        LET resource == [NewResource(cid, filename, size, uploadedBy) EXCEPT
                             !.Title = title, !.Subject = subject]
            v == validateResource(resource)
            st == StoreStore(resources, cid)
            up == RecordUploadOn(users, userObj, uploadedBy)
        IN  IF v # Nil
            THEN /\ ret' = [op |-> "Upload", err |-> v]
                 /\ UNCHANGED <<users, userObj, nEvents, recalc, resources, resObj, inflight>>
            ELSE IF st.err # Nil
            THEN /\ ret' = [op |-> "Upload",
                            err |-> NewOperationError("Upload", "failed to store resource",
                                                      st.err)]
                 /\ UNCHANGED <<users, userObj, nEvents, recalc, resources, resObj, inflight>>
            ELSE /\ resources' = st.resources
                 /\ resObj' = (cid :> resource) @@ resObj
                 /\ users' = up.users
                 /\ userObj' = up.userObj
                 /\ ret' = [op |-> "Upload", err |-> Nil]
                 /\ nEvents' = nEvents + 1
                 /\ UNCHANGED <<recalc, inflight>>

\* The RateResource handler: GetResource, AddRating through the pointer, then
\* RecalculateAll, whose error is dropped.
RateResource(resourceID, rating) ==
    LET g == StoreGet(resources, resourceID)
    IN  IF g.err # Nil
        THEN /\ ret' = [op |-> "RateResource", resourceID |-> resourceID, err |-> g.err]
             /\ UNCHANGED <<users, userObj, nEvents, recalc, resources, resObj, inflight>>
        ELSE /\ resObj' = [resObj EXCEPT ![resourceID] = AddRating(@, rating)]
             /\ \E list \in StoreGetAllUsers(users) :
                   LET s == RecalculateLoop(list, 1, userObj, users)
                   IN  /\ userObj' = s.userObj
                       /\ users' = s.users
             /\ ret' = [op |-> "RateResource", resourceID |-> resourceID,
                        new_rating |-> AddRating(resObj[resourceID], rating).AverageRating,
                        err |-> Nil]
             /\ nEvents' = nEvents + 1
             /\ UNCHANGED <<recalc, resources, inflight>>

(***************************************************************************)
(* Go's int where a caller chooses it: 64 bits in two's complement, held   *)
(* as four 16-bit limbs, the least significant first                       *)
(***************************************************************************)
Limb == 65536

\* The int64 of an integer n with -2^31 < n < 2^31.
Int64Of(n) ==
    IF n >= 0
    THEN <<n % Limb, n \div Limb, 0, 0>>
    ELSE LET m == -n - 1
         IN  <<Limb - 1 - (m % Limb), Limb - 1 - (m \div Limb), Limb - 1, Limb - 1>>

Int64Negative(a) == a[4] >= Limb \div 2

\* The integer an int64 stands for, when it is in -2^31 + 1 .. 2^31 - 1.
Int64Small(a) ==
    \/ a[3] = 0 /\ a[4] = 0 /\ a[2] < Limb \div 2
    \/ a[3] = Limb - 1 /\ a[4] = Limb - 1 /\ a[2] >= Limb \div 2

Int64ToInt(a) ==
    IF Int64Negative(a)
    THEN -((Limb - 1 - a[1]) + (Limb - 1 - a[2]) * Limb) - 1
    ELSE a[1] + a[2] * Limb

\* a + b and a * k (0 <= k < 2^15), both modulo 2^64.
Int64Add(a, b) ==
    LET s1 == a[1] + b[1]
        s2 == a[2] + b[2] + s1 \div Limb
        s3 == a[3] + b[3] + s2 \div Limb
        s4 == a[4] + b[4] + s3 \div Limb
    IN  <<s1 % Limb, s2 % Limb, s3 % Limb, s4 % Limb>>

Int64MulInt(a, k) ==
    LET p1 == a[1] * k
        p2 == a[2] * k + p1 \div Limb
        p3 == a[3] * k + p2 \div Limb
        p4 == a[4] * k + p3 \div Limb
    IN  <<p1 % Limb, p2 % Limb, p3 % Limb, p4 % Limb>>

\* a < b as signed integers.
Int64Less(a, b) ==
    IF Int64Negative(a) # Int64Negative(b) THEN Int64Negative(a)
    ELSE \E i \in 1 .. 4 : a[i] < b[i] /\ \A j \in i + 1 .. 4 : a[j] = b[j]

(***************************************************************************)
(* SearchService                                                           *)
(***************************************************************************)
calculateRelevanceCaseSensitive(r, query) ==
    IF query = <<>> THEN RatInt(1)
    ELSE RatAdd(RatAdd(IF Contains(r.Title, query) THEN RatInt(3) ELSE RatInt(0),
                       IF Contains(r.Filename, query) THEN RatInt(2) ELSE RatInt(0)),
                IF Contains(r.Subject, query) THEN Rat(3, 2) ELSE RatInt(0))

\* The weights 3.0, 2.0 and 1.5 and their sums are exact in float64.
calculateRelevance(r, query) ==
    IF query = <<>> THEN RatInt(1)
    ELSE RatAdd(RatAdd(IF Contains(ToLower(r.Title), query) THEN RatInt(3) ELSE RatInt(0),
                       IF Contains(ToLower(r.Filename), query) THEN RatInt(2) ELSE RatInt(0)),
                IF Contains(ToLower(r.Subject), query) THEN Rat(3, 2) ELSE RatInt(0))

matchesFiltersStrictRating(r, f) ==
    IF f.Subject # <<>> /\ ~EqualFold(r.Subject, f.Subject) THEN FALSE
    ELSE IF f.Type # "" /\ r.Type # f.Type THEN FALSE
    ELSE IF RatLess(RatInt(0), f.MinRating) /\ RatLeq(r.AverageRating, f.MinRating) THEN FALSE
    ELSE TRUE

matchesFilters(r, f) ==
    IF f.Subject # <<>> /\ ~EqualFold(r.Subject, f.Subject) THEN FALSE
    ELSE IF f.Type # "" /\ r.Type # f.Type THEN FALSE
    ELSE IF RatLess(RatInt(0), f.MinRating) /\ RatLess(r.AverageRating, f.MinRating) THEN FALSE
    ELSE TRUE

\* Search's loop over the list GetAll returned, from its i-th element.
RECURSIVE SearchLoop(_, _, _, _, _, _)
SearchLoop(all, i, objs, query, filters, results) ==
    IF i > Len(all) THEN results
    ELSE LET resource == objs[all[i]]
             relevance == calculateRelevance(resource, query)
         IN  IF query # <<>> /\ relevance = RatInt(0)
             THEN SearchLoop(all, i + 1, objs, query, filters, results)
             ELSE IF ~matchesFilters(resource, filters)
             THEN SearchLoop(all, i + 1, objs, query, filters, results)
             ELSE SearchLoop(all, i + 1, objs, query, filters,
                             Append(results, [Resource |-> all[i],
                                              AvailablePeers |-> Len(resource.AvailableOn),
                                              Relevance |-> relevance]))

SortLessIgnoringOrder(results, i, j, by, order, objs) ==
    IF by = "rating"
    THEN RatLess(objs[results[i].Resource].AverageRating,
                 objs[results[j].Resource].AverageRating)
    ELSE IF by = "downloads"
    THEN objs[results[i].Resource].DownloadCount < objs[results[j].Resource].DownloadCount
    ELSE RatLess(results[i].Relevance, results[j].Relevance)

\* The comparison function sortResults hands to sort.Slice.
SortLess(results, i, j, by, order, objs) ==
    LET less == IF by = "rating"
                THEN RatLess(objs[results[i].Resource].AverageRating,
                             objs[results[j].Resource].AverageRating)
                ELSE IF by = "downloads"
                THEN objs[results[i].Resource].DownloadCount
                         < objs[results[j].Resource].DownloadCount
                ELSE RatLess(results[i].Relevance, results[j].Relevance)
    IN  IF order = "desc" THEN ~less ELSE less

\* sort.Slice on a slice of at most 6 elements is an insertion sort:
\*   for i := 1; i < n; i++ { for j := i; j > 0 && less(j, j-1); j-- { swap(j, j-1) } }
RECURSIVE InsertionInner(_, _, _, _, _)
InsertionInner(data, j, by, order, objs) ==
    IF j > 1 /\ SortLess(data, j, j - 1, by, order, objs)
    THEN InsertionInner([data EXCEPT ![j] = data[j - 1], ![j - 1] = data[j]],
                        j - 1, by, order, objs)
    ELSE data

RECURSIVE InsertionSort(_, _, _, _, _)
InsertionSort(data, i, by, order, objs) ==
    IF i > Len(data) THEN data
    ELSE InsertionSort(InsertionInner(data, i, by, order, objs), i + 1, by, order, objs)

sortResults(results, by, order, objs) == InsertionSort(results, 2, by, order, objs)

\* The page and whether the slice expression results[offset:end] panicked.
\* page is an int64; the sizes of the model stay below 2^15.
paginateSizeAtLeastOne(results, page, size) ==
    LET p == IF Int64Less(page, Int64Of(1)) THEN Int64Of(1) ELSE page
        sz == IF size < 1 THEN 1 ELSE size
        offset == Int64MulInt(Int64Add(p, Int64Of(-1)), sz)
        length == Int64Of(Len(results))
        sum == Int64Add(offset, Int64Of(sz))
        end == IF Int64Less(length, sum) THEN length ELSE sum
    IN  IF ~Int64Less(offset, length) THEN [panic |-> FALSE, page |-> <<>>]
        ELSE IF Int64Negative(offset) \/ Int64Less(end, offset)
        THEN [panic |-> TRUE, page |-> <<>>]
        ELSE [panic |-> FALSE,
              page |-> SubSeq(results, Int64ToInt(offset) + 1, Int64ToInt(end))]

paginate(results, page, size) ==
    LET p == IF Int64Less(page, Int64Of(1)) THEN Int64Of(1) ELSE page
        sz == IF size < 1 THEN 10 ELSE size
        offset == Int64MulInt(Int64Add(p, Int64Of(-1)), sz)
        length == Int64Of(Len(results))
        sum == Int64Add(offset, Int64Of(sz))
        end == IF Int64Less(length, sum) THEN length ELSE sum
    IN  IF ~Int64Less(offset, length) THEN [panic |-> FALSE, page |-> <<>>]
        ELSE IF Int64Negative(offset) \/ Int64Less(end, offset)
        THEN [panic |-> TRUE, page |-> <<>>]
        ELSE [panic |-> FALSE,
              page |-> SubSeq(results, Int64ToInt(offset) + 1, Int64ToInt(end))]

\* What Search does when GetAll enumerates the resources in the order all:
\* the value it returns, unless paginate panicked.
SearchOn(all, objs, query, filters) ==
    LET q == ToLower(TrimSpace(query))
        results == SearchLoop(all, 1, objs, q, filters, <<>>)
        sorted == sortResults(results, filters.SortBy, filters.SortOrder, objs)
        paged == paginate(sorted, filters.Page, filters.PageSize)
    IN  [panic |-> paged.panic,
         val |-> [Query |-> q,
                  Results |-> paged.page,
                  TotalCount |-> Len(sorted),
                  Page |-> filters.Page,
                  PageSize |-> filters.PageSize]]

\* A panic leaves the call without a result.
Search(query, filters) ==
    /\ \E all \in StoreGetAll(resources) :
          LET r == SearchOn(all, resObj, query, filters)
          IN  ret' = IF r.panic
                     THEN [op |-> "SearchPanic", query |-> query, filters |-> filters]
                     ELSE [op |-> "Search", query |-> query, filters |-> filters,
                           val |-> r.val, err |-> Nil]
    /\ UNCHANGED <<users, userObj, nEvents, recalc, resources, resObj, inflight>>

DownloadStoppingAtUnknownUser(resourceID, userID) ==
    LET g == StoreGet(resources, resourceID)
        down == RecordDownloadOn(users, userObj, userID)
    IN  IF g.err # Nil \/ down.err # Nil
        THEN /\ ret' = [op |-> "Download", resourceID |-> resourceID, userID |-> userID,
                        err |-> IF g.err # Nil THEN g.err ELSE down.err]
             /\ UNCHANGED <<users, userObj, nEvents, recalc, resources, resObj, inflight>>
        ELSE /\ resObj' = [resObj EXCEPT ![resourceID].DownloadCount = @ + 1]
             /\ users' = down.users
             /\ userObj' = down.userObj
             /\ ret' = [op |-> "Download", resourceID |-> resourceID, userID |-> userID,
                        err |-> Nil]
             /\ nEvents' = nEvents + 1
             /\ UNCHANGED <<recalc, resources, inflight>>

\* LibraryService.Download: the count is raised through the pointer Get
\* returned; the error of RecordDownload is dropped.
Download(resourceID, userID) ==
    LET g == StoreGet(resources, resourceID)
        down == RecordDownloadOn(users, userObj, userID)
    IN  IF g.err # Nil
        THEN /\ ret' = [op |-> "Download", resourceID |-> resourceID, userID |-> userID,
                        err |-> g.err]
             /\ UNCHANGED <<users, userObj, nEvents, recalc, resources, resObj, inflight>>
        ELSE /\ resObj' = [resObj EXCEPT ![resourceID].DownloadCount = @ + 1]
             /\ users' = down.users
             /\ userObj' = down.userObj
             /\ ret' = [op |-> "Download", resourceID |-> resourceID, userID |-> userID,
                        err |-> Nil]
             /\ nEvents' = nEvents + 1
             /\ UNCHANGED <<recalc, resources, inflight>>

(***************************************************************************)
(* The library and its search, one operation at a time                     *)
(***************************************************************************)
Titles == {<<"A", "b">>, <<"b">>}

Filenames == {<<"A", ".", "p", "d", "f">>, <<"b", ".", "d", "o", "c">>,
              <<"b", ".", "e", "x", "e">>, <<>>}

Subjects == {<<"a">>, <<"B">>}

Sizes == {0, 1, MaxFileSize + 1}

\* Ratings a caller sends: 0 is not a valid rating.
ResourceRatings == {RatInt(0), RatInt(3), RatInt(MaxRating)}

AnyResourceID == 0 .. MaxResources

Queries == {<<>>, <<" ">>, <<" ", "A", " ">>, <<"b">>}

\* Every combination of the three filters, every sort key and order, and
\* pages before, at and after the first with sizes under and at 1; the rest
\* of each input is what the SearchResources handler sends by default.
FilterInputs ==
    [Subject : {<<>>, <<"A">>}, Type : {"", TypeDocument},
     MinRating : {RatInt(0), RatInt(3)}, Tags : {<<>>},
     SortBy : {""}, SortOrder : {""}, Page : {Int64Of(1)}, PageSize : {10}]
    \cup
    [Subject : {<<>>}, Type : {""}, MinRating : {RatInt(0)}, Tags : {<<>>},
     SortBy : {"", "rating", "downloads"}, SortOrder : {"", "desc"},
     Page : {Int64Of(1)}, PageSize : {10}]
    \cup
    [Subject : {<<>>}, Type : {""}, MinRating : {RatInt(0)}, Tags : {<<>>},
     SortBy : {""}, SortOrder : {""}, Page : {Int64Of(0), Int64Of(2)},
     PageSize : {0, 1}]

\* A search changes nothing that another operation reads, so the exploration
\* takes it as the last operation of a behaviour.
Searched == ret.op = "Search"

NextSearch ==
    \/ /\ ~Searched
       /\ Cardinality(DOMAIN resObj) < MaxResources
       /\ Within(MaxSearchEvents)
       /\ \E filename \in Filenames, size \in Sizes, uploadedBy \in {0} \cup users,
             title \in Titles, subject \in Subjects :
             Upload(filename, size, uploadedBy, title, subject)
    \/ /\ ~Searched
       /\ Within(MaxSearchEvents)
       /\ \E resourceID \in AnyResourceID, rating \in ResourceRatings :
             RateResource(resourceID, rating)
    \/ /\ ~Searched
       /\ \E query \in Queries, filters \in FilterInputs : Search(query, filters)

SpecSearch == Init /\ [][NextSearch]_vars

(***************************************************************************)
(* Sorting and paging: a library of resources that differ in title,        *)
(* rating and download count, searched again and again                     *)
(***************************************************************************)
PagedTitles == {<<"A", "b">>, <<"b">>}

PagedFilename == <<"A", ".", "p", "d", "f">>

PagedSubject == <<"a">>

PagedRatings == {RatInt(3)}

PagedQueries == {<<>>, <<"a">>}

\* The least page whose offset (page - 1) * 10 exceeds the largest int64:
\* 922337203685477582.
OverflowPage == <<52430, 52428, 52428, 3276>>

\* <<page, pageSize>>: the handler's default, pages of one and of two
\* results up to one past the last, values below 1, and the overflowing page
\* with the sizes 1, 10 and 0.
PageInputs ==
    {<<Int64Of(pg[1]), pg[2]>> :
        pg \in {<<1, 10>>, <<1, 1>>, <<2, 1>>, <<1, 2>>, <<2, 2>>, <<3, 2>>,
                <<0, 2>>, <<1, 0>>, <<1, -1>>, <<-1, -1>>}}
    \cup {<<OverflowPage, 1>>, <<OverflowPage, 10>>, <<OverflowPage, 0>>}

\* Every sort key and order on the handler's default page, and every page
\* input on the default sort key in both orders.
PagingFilters ==
    {[Subject |-> <<>>, Type |-> "", MinRating |-> RatInt(0), Tags |-> <<>>,
      SortBy |-> by, SortOrder |-> order, Page |-> Int64Of(1), PageSize |-> 10] :
        by \in {"", "rating", "downloads"}, order \in {"", "asc", "desc"}}
    \cup
    {[Subject |-> <<>>, Type |-> "", MinRating |-> RatInt(0), Tags |-> <<>>,
      SortBy |-> "", SortOrder |-> order, Page |-> pg[1], PageSize |-> pg[2]] :
        order \in {"", "desc"}, pg \in PageInputs}

\* Ratings and downloads recorded so far (every stored resource took one
\* upload event).
Engagement == nEvents - Cardinality(DOMAIN resObj)

\* A client reads a result list to its end: one Search call per page, from
\* page 1 to the page after the last, each call enumerating the store on its
\* own.  val is what the first call returned, pages the Results of each call.
ReadAllPages(query, filters) ==
    /\ filters.PageSize >= 1
    /\ \E first \in StoreGetAll(resources) :
          LET r == SearchOn(first, resObj, query, [filters EXCEPT !.Page = Int64Of(1)])
              size == filters.PageSize
              last == (r.val.TotalCount + size - 1) \div size
          IN  \E alls \in [2 .. last + 1 -> StoreGetAll(resources)] :
                  ret' = [op |-> "ReadAllPages", query |-> query, filters |-> filters,
                          val |-> r.val,
                          pages |-> [pg \in 1 .. last + 1 |->
                                       IF pg = 1 THEN r.val.Results
                                       ELSE SearchOn(alls[pg], resObj, query,
                                                     [filters EXCEPT !.Page = Int64Of(pg)]
                                                    ).val.Results]]
    /\ UNCHANGED <<users, userObj, nEvents, recalc, resources, resObj, inflight>>

\* Searches change nothing another operation reads, so the exploration
\* takes them last, and after a search it repeats that same search.
Searching == ret.op \in {"Search", "SearchPanic", "ReadAllPages"}

NextPaging ==
    \/ /\ ~Searching
       /\ Cardinality(DOMAIN resObj) < MaxPagedResources
       /\ \E title \in PagedTitles : Upload(PagedFilename, 1, 0, title, PagedSubject)
    \/ /\ ~Searching
       /\ Engagement < MaxEngagement
       /\ \E resourceID \in 0 .. MaxPagedResources, rating \in PagedRatings :
             RateResource(resourceID, rating)
    \/ /\ ~Searching
       /\ Engagement < MaxEngagement
       /\ \E resourceID \in 0 .. MaxPagedResources : Download(resourceID, 0)
    \/ \E query \in PagedQueries, filters \in PagingFilters :
          /\ ret.op # "ReadAllPages"
          /\ Searching => query = ret.query /\ filters = ret.filters
          /\ Search(query, filters)
    \/ \E query \in PagedQueries, filters \in PagingFilters :
          /\ ~Searching
          /\ filters.Page = Int64Of(1)
          /\ filters.PageSize = 2
          /\ filters.SortOrder = ""
          /\ ReadAllPages(query, filters)

SpecPaging == Init /\ [][NextPaging]_vars

(***************************************************************************)
(* Suggestions: a library large enough for more than ten distinct titles   *)
(* and subjects                                                            *)
(***************************************************************************)
\* The byte of a character, for the characters the model's strings are made of.
CharCode(c) ==
    CASE c = " " -> 32 [] c = "." -> 46
      [] c = "1" -> 49 [] c = "2" -> 50 [] c = "3" -> 51 [] c = "4" -> 52
      [] c = "5" -> 53 [] c = "6" -> 54 [] c = "7" -> 55 [] c = "8" -> 56
      [] c = "9" -> 57
      [] c = "A" -> 65 [] c = "B" -> 66 [] c = "D" -> 68 [] c = "F" -> 70
      [] c = "P" -> 80
      [] c = "a" -> 97 [] c = "b" -> 98 [] c = "c" -> 99 [] c = "d" -> 100
      [] c = "e" -> 101 [] c = "f" -> 102 [] c = "o" -> 111 [] c = "p" -> 112
      [] c = "x" -> 120

\* s < t on Go strings: byte by byte, a proper prefix first.
RECURSIVE StringLess(_, _)
StringLess(s, t) ==
    IF t = <<>> THEN FALSE
    ELSE IF s = <<>> THEN TRUE
    ELSE IF CharCode(Head(s)) # CharCode(Head(t)) THEN CharCode(Head(s)) < CharCode(Head(t))
    ELSE StringLess(Tail(s), Tail(t))

\* sort.Strings on the keys of a map, which are distinct: whatever order the
\* range over the map yields them in, the result is their ascending order.
RECURSIVE SortStrings(_)
SortStrings(S) ==
    IF S = {} THEN <<>>
    ELSE LET least == CHOOSE x \in S : \A y \in S \ {x} : StringLess(x, y)
         IN  <<least>> \o SortStrings(S \ {least})

SuggestStepCaseSensitive(seen, r, partial) ==
    seen \cup (IF Contains(r.Title, partial) THEN {r.Title} ELSE {})
         \cup (IF Contains(r.Subject, partial) THEN {r.Subject} ELSE {})

\* One iteration of GetSuggestions' loop; partial is already in lower case.
SuggestStep(seen, r, partial) ==
    seen \cup (IF Contains(ToLower(r.Title), partial) THEN {r.Title} ELSE {})
         \cup (IF Contains(ToLower(r.Subject), partial) THEN {r.Subject} ELSE {})

\* GetSuggestions' loop over the list GetAll returned, which holds the map's
\* keys in any order: front is the set of the loop's possible states
\* [rest |-> resources still to come, seen |-> keys of the map seen], and the
\* result is the set of key sets the loop can end with.
RECURSIVE SuggestLoop(_, _, _)
SuggestLoop(front, objs, partial) ==
    IF \A f \in front : f.rest = {}
    THEN {f.seen : f \in front}
    ELSE SuggestLoop(UNION {{[rest |-> f.rest \ {id},
                              seen |-> SuggestStep(f.seen, objs[id], partial)] :
                                id \in f.rest} : f \in front}, objs, partial)

GetSuggestions(partial) ==
    /\ \E seen \in SuggestLoop({[rest |-> resources, seen |-> {}]}, resObj,
                                ToLower(partial)) :
          LET result == SortStrings(seen)
          IN  ret' = [op |-> "GetSuggestions", partial |-> partial,
                      val |-> IF Len(result) > 10 THEN SubSeq(result, 1, 10) ELSE result,
                      err |-> Nil]
    /\ UNCHANGED <<users, userObj, nEvents, recalc, resources, resObj, inflight>>

DigitChar(k) ==
    CASE k = 1 -> "1" [] k = 2 -> "2" [] k = 3 -> "3" [] k = 4 -> "4" [] k = 5 -> "5"
      [] k = 6 -> "6" [] k = 7 -> "7" [] k = 8 -> "8" [] k = 9 -> "9"

\* The k-th upload has a title of its own ("a1", "a2", ...) or the title "b",
\* and a subject of its own ("A1", "A2", ...); the first two may have the
\* subject "a1" instead, which is also the first one's title.
SuggestTitles(k) == {<<"a", DigitChar(k)>>, <<"b">>}

SuggestSubjects(k) == {<<"A", DigitChar(k)>>} \cup (IF k <= 2 THEN {<<"a", "1">>} ELSE {})

Partials == {<<>>, <<"a">>, <<"A">>, <<"b">>, <<"1">>}

Suggested == ret.op = "GetSuggestions"

NextSuggest ==
    \/ /\ ~Suggested
       /\ Cardinality(DOMAIN resObj) < MaxSuggestResources
       /\ LET k == Cardinality(DOMAIN resObj) + 1
          IN  \E title \in SuggestTitles(k), subject \in SuggestSubjects(k) :
                  Upload(PagedFilename, 1, 0, title, subject)
    \/ /\ ~Suggested
       /\ \E partial \in Partials : GetSuggestions(partial)

SpecSuggest == Init /\ [][NextSuggest]_vars

(***************************************************************************)
(* Lookup by subject and by tag                                            *)
(***************************************************************************)
\* The CreateResource handler for a request that carries a user id: the
\* resource NewResource builds, completed with the request's title, subject
\* and tags, is handed to LibraryService.Upload.
CreateResource(filename, size, userID, title, subject, tags) ==
    \E cid \in ContentIDs(filename) :
        LET resource == [NewResource(cid, filename, size, userID) EXCEPT
                             !.Title = title, !.Subject = subject, !.Tags = tags]
            v == validateResource(resource)
            st == StoreStore(resources, cid)
            up == RecordUploadOn(users, userObj, userID)
        IN  IF v # Nil
            THEN /\ ret' = [op |-> "Upload", err |-> v]
                 /\ UNCHANGED <<users, userObj, nEvents, recalc, resources, resObj, inflight>>
            ELSE IF st.err # Nil
            THEN /\ ret' = [op |-> "Upload",
                            err |-> NewOperationError("Upload", "failed to store resource",
                                                      st.err)]
                 /\ UNCHANGED <<users, userObj, nEvents, recalc, resources, resObj, inflight>>
            ELSE /\ resources' = st.resources
                 /\ resObj' = (cid :> resource) @@ resObj
                 /\ users' = up.users
                 /\ userObj' = up.userObj
                 /\ ret' = [op |-> "Upload", err |-> Nil]
                 /\ nEvents' = nEvents + 1
                 /\ UNCHANGED <<recalc, inflight>>

\* SearchBySubject's loop from position i of the list GetAll returned; the
\* results are the pointers, which the model names by the resources' ids.
RECURSIVE SubjectLoop(_, _, _, _, _)
SubjectLoop(all, i, objs, subject, results) ==
    IF i > Len(all) THEN results
    ELSE SubjectLoop(all, i + 1, objs, subject,
                     IF EqualFold(objs[all[i]].Subject, subject)
                     THEN Append(results, all[i]) ELSE results)

RECURSIVE TagsLoopWithoutBreak(_, _, _, _, _)
TagsLoopWithoutBreak(tags, j, tag, id, results) ==
    IF j > Len(tags) THEN results
    ELSE TagsLoopWithoutBreak(tags, j + 1, tag, id,
                              IF EqualFold(tags[j], tag) THEN Append(results, id)
                              ELSE results)

\* SearchByTag's inner loop over r.Tags from position j: the first tag that
\* matches appends the resource and ends the loop.
RECURSIVE TagsLoop(_, _, _, _, _)
TagsLoop(tags, j, tag, id, results) ==
    IF j > Len(tags) THEN results
    ELSE IF EqualFold(tags[j], tag) THEN Append(results, id)
    ELSE TagsLoop(tags, j + 1, tag, id, results)

RECURSIVE TagLoop(_, _, _, _, _)
TagLoop(all, i, objs, tag, results) ==
    IF i > Len(all) THEN results
    ELSE TagLoop(all, i + 1, objs, tag,
                 TagsLoop(objs[all[i]].Tags, 1, tag, all[i], results))

SearchBySubject(subject) ==
    /\ \E all \in StoreGetAll(resources) :
          ret' = [op |-> "SearchBySubject", subject |-> subject,
                  val |-> SubjectLoop(all, 1, resObj, subject, <<>>), err |-> Nil]
    /\ UNCHANGED <<users, userObj, nEvents, recalc, resources, resObj, inflight>>

SearchByTag(tag) ==
    /\ \E all \in StoreGetAll(resources) :
          ret' = [op |-> "SearchByTag", tag |-> tag,
                  val |-> TagLoop(all, 1, resObj, tag, <<>>), err |-> Nil]
    /\ UNCHANGED <<users, userObj, nEvents, recalc, resources, resObj, inflight>>

LookupSubjects == {<<"a">>, <<"B">>}

LookupTags == {<<>>, << <<"A">>, <<"a">> >>, << <<"b">> >>}

SubjectInputs == {<<"A">>, <<"b">>, <<>>}

TagInputs == {<<"a">>, <<"B">>, <<"x">>}

NextLookup ==
    \/ /\ Cardinality(DOMAIN resObj) < MaxLookupResources
       /\ \E subject \in LookupSubjects, tags \in LookupTags :
              CreateResource(PagedFilename, 1, 0, <<>>, subject, tags)
    \/ \E subject \in SubjectInputs : SearchBySubject(subject)
    \/ \E tag \in TagInputs : SearchByTag(tag)

SpecLookup == Init /\ [][NextLookup]_vars

(***************************************************************************)
(* A long run of downloads: the incremental score next to the recalculated *)
(* one                                                                     *)
(***************************************************************************)
\* Beyond MaxEvents only the first account goes on downloading.
MayDownloadOn(userID) ==
    \/ Within(MaxEvents)
    \/ /\ userID = 1
       /\ 1 \in users
       /\ userObj[1].TotalDownloads < MaxFloorDownloads

NextFloor ==
    \/ MayCreate /\ CreateUser
    \/ Within(MaxEvents) /\ \E userID \in AnyUserID : RecordUpload(userID)
    \/ \E userID \in AnyUserID : MayDownloadOn(userID) /\ RecordDownload(userID)
    \/ Within(MaxEvents) /\ \E userID \in AnyUserID, rating \in RatingInputs :
          UpdateRatingReceived(userID, rating)
    \/ RecalculateAll

SpecFloor == Init /\ [][NextFloor]_vars

(***************************************************************************)
(* Rating the resources of stored accounts                                 *)
(***************************************************************************)
NextRate ==
    \/ MayCreate /\ CreateUser
    \/ /\ Cardinality(DOMAIN resObj) < MaxRatedResources
       /\ \E uploadedBy \in {0} \cup users :
              Upload(PagedFilename, 1, uploadedBy, <<>>, <<>>)
    \/ /\ Within(MaxRateEvents)
       /\ \E resourceID \in 0 .. MaxRatedResources, rating \in ResourceRatings :
              RateResource(resourceID, rating)

SpecRate == Init /\ [][NextRate]_vars

(***************************************************************************)
(* Accounts that only upload and download, then Calculate or              *)
(* RecalculateAll                                                          *)
(***************************************************************************)
Settled == ret.op \in {"Calculate", "RecalculateAll"}

\* Beyond MaxEvents the first account goes on: downloads up to
\* MaxDriftDownloads, and uploads up to MaxDriftUploads among them.
MayDrift(userID, field, bound) ==
    \/ Within(MaxEvents)
    \/ /\ userID = 1
       /\ 1 \in users
       /\ userObj[1][field] < bound

NextDrift ==
    \/ ~Settled /\ MayCreate /\ CreateUser
    \/ /\ ~Settled
       /\ \E userID \in AnyUserID :
              MayDrift(userID, "TotalUploads", MaxDriftUploads) /\ RecordUpload(userID)
    \/ /\ ~Settled
       /\ \E userID \in AnyUserID :
              MayDrift(userID, "TotalDownloads", MaxDriftDownloads) /\ RecordDownload(userID)
    \/ ~Settled /\ \E userID \in AnyUserID : Calculate(userID)
    \/ ~Settled /\ RecalculateAll

SpecDrift == Init /\ [][NextDrift]_vars

(***************************************************************************)
(* Several RecordUpload calls at once.  Each call holds the store's lock   *)
(* inside GetUser and inside UpdateUser only; between them it reads and    *)
(* writes the fields of the account through the pointer GetUser returned,  *)
(* one load or store at a time.  inflight maps each caller to its position *)
(* and to the value it has loaded.                                         *)
(***************************************************************************)
Writers == 1 .. MaxWriters

InitWriters ==
    /\ users = {}
    /\ userObj = <<>>
    /\ nEvents = 0
    /\ ret = NoRet
    /\ recalc = Idle
    /\ resources = {}
    /\ resObj = <<>>
    /\ inflight = [w \in Writers |-> NoCall]

\* user, err := s.store.GetUser(userID)
WriterGetUser(w, userID) ==
    /\ inflight[w].pc = "idle"
    /\ LET g == StoreGetUser(users, userID)
       IN  IF g.err # Nil
           THEN /\ inflight' = [inflight EXCEPT ![w] = [pc |-> "done", userID |-> userID,
                                                        err |-> g.err]]
                /\ ret' = [op |-> "RecordUpload", userID |-> userID, err |-> g.err]
           ELSE /\ inflight' = [inflight EXCEPT ![w] = [pc |-> "loadCount",
                                                        userID |-> userID]]
                /\ UNCHANGED ret
    /\ UNCHANGED <<users, userObj, nEvents, recalc, resources, resObj>>

\* user.TotalUploads++ : the load
WriterLoadCount(w) ==
    /\ inflight[w].pc = "loadCount"
    /\ inflight' = [inflight EXCEPT ![w] = [pc |-> "storeCount", userID |-> @.userID,
                                            reg |-> userObj[@.userID].TotalUploads]]
    /\ UNCHANGED <<users, userObj, nEvents, ret, recalc, resources, resObj>>

\* user.TotalUploads++ : the store
WriterStoreCount(w) ==
    /\ inflight[w].pc = "storeCount"
    /\ userObj' = [userObj EXCEPT ![inflight[w].userID].TotalUploads = inflight[w].reg + 1]
    /\ inflight' = [inflight EXCEPT ![w] = [pc |-> "loadScore", userID |-> @.userID]]
    /\ UNCHANGED <<users, nEvents, ret, recalc, resources, resObj>>

\* user.Reputation += delta : the load
WriterLoadScore(w) ==
    /\ inflight[w].pc = "loadScore"
    /\ inflight' = [inflight EXCEPT ![w] = [pc |-> "storeScore", userID |-> @.userID,
                                            reg |-> userObj[@.userID].Reputation]]
    /\ UNCHANGED <<users, userObj, nEvents, ret, recalc, resources, resObj>>

\* user.Reputation += delta : the store
WriterStoreScore(w) ==
    /\ inflight[w].pc = "storeScore"
    /\ userObj' = [userObj EXCEPT ![inflight[w].userID].Reputation =
                                      inflight[w].reg + UploadWeight]
    /\ inflight' = [inflight EXCEPT ![w] = [pc |-> "tier", userID |-> @.userID]]
    /\ UNCHANGED <<users, nEvents, ret, recalc, resources, resObj>>

\* user.Classification = models.GetClassification(user.Reputation)
WriterTier(w) ==
    /\ inflight[w].pc = "tier"
    /\ userObj' = [userObj EXCEPT ![inflight[w].userID].Classification =
                                      GetClassification(userObj[inflight[w].userID].Reputation)]
    /\ inflight' = [inflight EXCEPT ![w] = [pc |-> "update", userID |-> @.userID]]
    /\ UNCHANGED <<users, nEvents, ret, recalc, resources, resObj>>

\* return s.store.UpdateUser(user)
WriterUpdateUser(w) ==
    /\ inflight[w].pc = "update"
    /\ LET u == StoreUpdateUser(users, inflight[w].userID)
       IN  /\ users' = u.users
           /\ ret' = [op |-> "RecordUpload", userID |-> inflight[w].userID, err |-> u.err]
           /\ inflight' = [inflight EXCEPT ![w] = [pc |-> "done", userID |-> @.userID,
                                                   err |-> u.err]]
    /\ nEvents' = nEvents + 1
    /\ UNCHANGED <<userObj, recalc, resources, resObj>>

NextWriters ==
    \/ MayCreate /\ CreateUser
    \/ \E w \in Writers, userID \in AnyUserID : WriterGetUser(w, userID)
    \/ \E w \in Writers : WriterLoadCount(w)
    \/ \E w \in Writers : WriterStoreCount(w)
    \/ \E w \in Writers : WriterLoadScore(w)
    \/ \E w \in Writers : WriterStoreScore(w)
    \/ \E w \in Writers : WriterTier(w)
    \/ \E w \in Writers : WriterUpdateUser(w)

SpecWriters == InitWriters /\ [][NextWriters]_vars

(***************************************************************************)
(* RecalculateAll next to RecordUpload and RecordDownload, statement by    *)
(* statement: an iteration reads the counters of the account, and writes   *)
(* the score and the tier through the pointer afterwards                   *)
(***************************************************************************)
\* score := CalculateReputation(user.TotalUploads, user.TotalDownloads,
\* user.AverageRating)
RecalcCompute ==
    /\ recalc.pc = "loop"
    /\ recalc.i <= Len(recalc.list)
    /\ LET user == userObj[recalc.list[recalc.i]]
       IN  recalc' = [pc |-> "store", list |-> recalc.list, i |-> recalc.i,
                      skipped |-> recalc.skipped,
                      score |-> CalculateReputation(user.TotalUploads, user.TotalDownloads,
                                                    user.AverageRating)]
    /\ UNCHANGED <<resources, resObj, users, userObj, nEvents, ret, inflight>>

\* user.Reputation = score; user.Classification = GetClassificationForScore(score);
\* s.store.UpdateUser(user)
RecalcStore ==
    /\ recalc.pc = "store"
    /\ LET id == recalc.list[recalc.i]
           u == StoreUpdateUser(users, id)
       IN  /\ userObj' = [userObj EXCEPT
                              ![id].Reputation = recalc.score,
                              ![id].Classification = GetClassificationForScore(recalc.score)]
           /\ users' = u.users
           /\ recalc' = [pc |-> "loop", list |-> recalc.list, i |-> recalc.i + 1,
                          skipped |-> IF u.err # Nil THEN recalc.skipped \cup {id}
                                      ELSE recalc.skipped]
    /\ UNCHANGED <<resources, resObj, nEvents, ret, inflight>>

NextRecalcRace ==
    \/ MayCreate /\ CreateUser
    \/ /\ Within(MaxRaceEvents)
       /\ \E op \in {"RecordUpload", "RecordDownload"}, userID \in AnyUserID :
             RecordBegin(op, userID)
    \/ RecordCount
    \/ RecordScore
    \/ RecordTier
    \/ RecordReturn
    \/ RecalcEnumerate
    \/ RecalcCompute
    \/ RecalcStore
    \/ RecalcReturn

SpecRecalcRace == Init /\ [][NextRecalcRace]_vars

(***************************************************************************)
(* Uploads of valid and invalid files by stored and unknown accounts       *)
(***************************************************************************)
NextUpload ==
    \/ MayCreate /\ CreateUser
    \/ /\ Cardinality(DOMAIN resObj) < MaxUploadedResources
       /\ \E filename \in Filenames, size \in Sizes, uploadedBy \in AnyUserID :
              Upload(filename, size, uploadedBy, <<"b">>, <<"a">>)

SpecUpload == Init /\ [][NextUpload]_vars

(***************************************************************************)
(* Downloads by stored and unknown accounts, among uploads and ratings     *)
(***************************************************************************)
NextDownload ==
    \/ MayCreate /\ CreateUser
    \/ /\ Cardinality(DOMAIN resObj) < MaxDownloadResources
       /\ \E uploadedBy \in AnyUserID : Upload(PagedFilename, 1, uploadedBy, <<>>, <<>>)
    \/ /\ Within(MaxDownloadEvents)
       /\ \E resourceID \in 0 .. MaxDownloadResources, userID \in AnyUserID :
              Download(resourceID, userID)
    \/ /\ Within(MaxDownloadEvents)
       /\ \E resourceID \in 0 .. MaxDownloadResources, rating \in ResourceRatings :
              RateResource(resourceID, rating)

SpecDownload == Init /\ [][NextDownload]_vars

(***************************************************************************)
(* One resource rated again and again.  The model keeps AverageRating as   *)
(* the exact quotient, which compares with thresholds and with other       *)
(* averages as the float64 does; the float64 the field holds is the        *)
(* rounded quotient.                                                       *)
(***************************************************************************)
\* r.AverageRating = r.RatingSum / float64(r.TotalRatings), for the whole
\* ratings the model's callers send (RatingSum is then a whole number that
\* float64 holds exactly).
Float64AverageRating(r) ==
    IF r.TotalRatings = 0 THEN Float64Zero
    ELSE Float64Div(r.RatingSum.n, r.TotalRatings)

\* Ratings a caller sends: 0 and 6 are not valid.
WholeRatings == {RatInt(k) : k \in 0 .. 6}

NextRatings ==
    \/ /\ resources = {}
       /\ Upload(PagedFilename, 1, 0, <<>>, <<>>)
    \/ /\ Engagement < MaxRatings
       /\ \E resourceID \in {0, 1}, rating \in WholeRatings :
              RateResource(resourceID, rating)

SpecRatings == Init /\ [][NextRatings]_vars

(***************************************************************************)
(* The most downloaded resources and the accounts with the highest scores  *)
(***************************************************************************)
\* sort.Slice with the comparison key[i] > key[j], on a slice short enough
\* for the insertion sort:
\*   for i := 1; i < n; i++ { for j := i; j > 0 && less(j, j-1); j-- { swap(j, j-1) } }
RECURSIVE RankInner(_, _, _)
RankInner(data, j, key) ==
    IF j > 1 /\ key[data[j]] > key[data[j - 1]]
    THEN RankInner([data EXCEPT ![j] = data[j - 1], ![j - 1] = data[j]], j - 1, key)
    ELSE data

RECURSIVE RankSort(_, _, _)
RankSort(data, i, key) ==
    IF i > Len(data) THEN data
    ELSE RankSort(RankInner(data, i, key), i + 1, key)

\* if limit > len(all) { limit = len(all) }; return all[:limit], nil
\* The slice expression panics when limit is negative.
TopOf(all, limit) ==
    LET n == IF limit > Len(all) THEN Len(all) ELSE limit
    IN  IF n < 0 THEN [panic |-> TRUE, val |-> <<>>]
        ELSE [panic |-> FALSE, val |-> SubSeq(all, 1, n)]

GetPopular(limit) ==
    /\ \E all \in StoreGetAll(resources) :
          LET key == [id \in resources |-> resObj[id].DownloadCount]
              top == TopOf(RankSort(all, 2, key), limit)
          IN  ret' = IF top.panic
                     THEN [op |-> "GetPopularPanic", limit |-> limit]
                     ELSE [op |-> "GetPopular", limit |-> limit, val |-> top.val,
                           err |-> Nil]
    /\ UNCHANGED <<users, userObj, nEvents, recalc, resources, resObj, inflight>>

GetLeaderboard(limit) ==
    /\ \E list \in StoreGetAllUsers(users) :
          LET key == [id \in users |-> userObj[id].Reputation]
              top == TopOf(RankSort(list, 2, key), limit)
          IN  ret' = IF top.panic
                     THEN [op |-> "GetLeaderboardPanic", limit |-> limit]
                     ELSE [op |-> "GetLeaderboard", limit |-> limit, val |-> top.val,
                           err |-> Nil]
    /\ UNCHANGED <<users, userObj, nEvents, recalc, resources, resObj, inflight>>

\* The limits a caller passes: Atoi in the popular handler accepts any integer.
Limits == {-1, 0, 1, 2, 10}

Ranked == ret.op \in {"GetPopular", "GetPopularPanic", "GetLeaderboard", "GetLeaderboardPanic"}

NextRanking ==
    \/ ~Ranked /\ MayCreate /\ CreateUser
    \/ /\ ~Ranked
       /\ Cardinality(DOMAIN resObj) < MaxRankedResources
       /\ \E uploadedBy \in AnyUserID : Upload(PagedFilename, 1, uploadedBy, <<>>, <<>>)
    \/ /\ ~Ranked
       /\ Engagement < MaxRankEvents
       /\ \E resourceID \in 0 .. MaxRankedResources, userID \in AnyUserID :
              Download(resourceID, userID)
    \/ ~Ranked /\ \E limit \in Limits : GetPopular(limit)
    \/ ~Ranked /\ \E limit \in Limits : GetLeaderboard(limit)

SpecRanking == Init /\ [][NextRanking]_vars

(***************************************************************************)
(* Program start-up: seedDemoData, then RecalculateAll.  The accounts are  *)
(* numbered in the order of their creation: alice 1, bob 2, charlie 3,     *)
(* diana 4, eve 5.  Titles, subjects, tags and descriptions of the demo    *)
(* resources, which no account depends on, stay at their zero values.      *)
(***************************************************************************)
SeedUsers == <<"alice", "bob", "charlie", "diana", "eve">>

\* The loops of RecordUpload and RecordDownload calls, in program order.
SeedRecords ==
    <<[user |-> 1, op |-> "RecordUpload", times |-> 50],
      [user |-> 1, op |-> "RecordDownload", times |-> 10],
      [user |-> 2, op |-> "RecordUpload", times |-> 25],
      [user |-> 2, op |-> "RecordDownload", times |-> 10],
      [user |-> 4, op |-> "RecordUpload", times |-> 12],
      [user |-> 4, op |-> "RecordDownload", times |-> 12],
      [user |-> 3, op |-> "RecordUpload", times |-> 3],
      [user |-> 3, op |-> "RecordDownload", times |-> 30],
      [user |-> 5, op |-> "RecordUpload", times |-> 8],
      [user |-> 5, op |-> "RecordDownload", times |-> 15]>>

\* The demo resources: uploader and size.
SeedResources ==
    <<[uploader |-> 1, size |-> 2500000], [uploader |-> 1, size |-> 3200000],
      [uploader |-> 2, size |-> 1800000], [uploader |-> 1, size |-> 4100000],
      [uploader |-> 2, size |-> 2800000], [uploader |-> 1, size |-> 2100000],
      [uploader |-> 3, size |-> 1900000], [uploader |-> 2, size |-> 3500000],
      [uploader |-> 4, size |-> 4200000], [uploader |-> 4, size |-> 2600000],
      [uploader |-> 1, size |-> 5100000], [uploader |-> 2, size |-> 3100000],
      [uploader |-> 5, size |-> 4800000], [uploader |-> 4, size |-> 3700000],
      [uploader |-> 5, size |-> 2900000]>>

\* The demo files have fifteen different names, all ending in .pdf.
SeedFilename(k) == [i \in 1 .. k |-> "a"] \o <<".", "p", "d", "f">>

\* The number of calls the loops from the i-th on make.
RECURSIVE SeedCalls(_)
SeedCalls(i) == IF i > Len(SeedRecords) THEN 0 ELSE SeedRecords[i].times + SeedCalls(i + 1)

\* The loop that makes the k-th call counted from the start of the i-th loop.
RECURSIVE SeedRecordAt(_, _)
SeedRecordAt(k, i) ==
    IF k <= SeedRecords[i].times THEN SeedRecords[i]
    ELSE SeedRecordAt(k - SeedRecords[i].times, i + 1)

SeedCreateUser ==
    /\ Cardinality(DOMAIN userObj) < Len(SeedUsers)
    /\ CreateUser

SeedRecord ==
    /\ Cardinality(DOMAIN userObj) = Len(SeedUsers)
    /\ nEvents < SeedCalls(1)
    /\ LET loop == SeedRecordAt(nEvents + 1, 1)
       IN  IF loop.op = "RecordUpload"
           THEN RecordUpload(loop.user)
           ELSE RecordDownload(loop.user)

\* One iteration of the loop over the demo resources: NewResource, AddPeer,
\* Upload (its error is dropped), three AddRating calls and the assignment
\* of DownloadCount through the pointer.
SeedResource ==
    /\ nEvents >= SeedCalls(1)
    /\ nEvents < SeedCalls(1) + Len(SeedResources)
    /\ LET k == nEvents - SeedCalls(1) + 1
           r == SeedResources[k]
       IN  \E cid \in ContentIDs(SeedFilename(k)) :
               LET made == [NewResource(cid, SeedFilename(k), r.size, r.uploader) EXCEPT
                                !.AvailableOn = IF r.uploader # 1
                                                THEN <<"peer-alice-001", "peer-bob-002">>
                                                ELSE <<"peer-alice-001">>]
                   st == StoreStore(resources, cid)
                   up == RecordUploadOn(users, userObj, r.uploader)
                   rated == AddRating(AddRating(AddRating(made, RatInt(4)), Rat(9, 2)),
                                      Rat(7, 2))
               IN  IF validateResource(made) = Nil /\ st.err = Nil
                   THEN /\ resources' = st.resources
                        /\ resObj' = (cid :> [rated EXCEPT !.DownloadCount = r.size \div 100000])
                                          @@ resObj
                        /\ users' = up.users
                        /\ userObj' = up.userObj
                   ELSE UNCHANGED <<resources, resObj, users, userObj>>
    /\ ret' = [op |-> "seedDemoData", resource |-> nEvents - SeedCalls(1) + 1]
    /\ nEvents' = nEvents + 1
    /\ UNCHANGED <<recalc, inflight>>

\* main: reputationService.RecalculateAll() after seedDemoData has returned.
SeedRecalculateAll ==
    /\ nEvents = SeedCalls(1) + Len(SeedResources)
    /\ ret.op # "RecalculateAll"
    /\ RecalculateAll

NextSeed ==
    \/ SeedCreateUser
    \/ SeedRecord
    \/ SeedResource
    \/ SeedRecalculateAll

SpecSeed == Init /\ [][NextSeed]_vars

(***************************************************************************)
(* The pure functions on their own: the initial state draws a call's       *)
(* inputs from a bounded grid, and the call leaves what it returned in ret. *)
(***************************************************************************)
\* Average ratings in [0, MaxRating], in steps of MaxRating / RatingSteps.
RatingGrid == {Rat(MaxRating * k, RatingSteps) : k \in 0 .. RatingSteps}

\* The inputs of TestCalculateReputation's table.
TestVectors ==
    {[uploads |-> 0, downloads |-> 0, avgRating |-> RatInt(0)],
     [uploads |-> 50, downloads |-> 30, avgRating |-> Rat(45, 10)],
     [uploads |-> 5, downloads |-> 50, avgRating |-> RatInt(2)],
     [uploads |-> 20, downloads |-> 20, avgRating |-> RatInt(3)],
     [uploads |-> 100, downloads |-> 10, avgRating |-> RatInt(5)]}

CalcInputs ==
    [uploads : 0 .. MaxCalcUploads, downloads : 0 .. MaxCalcDownloads, avgRating : RatingGrid]
    \cup TestVectors

\* A call not yet made: the function's name and its arguments.
PendingCalls ==
    {[op |-> "call", fn |-> "CalculateReputation", uploads |-> in.uploads,
      downloads |-> in.downloads, avgRating |-> in.avgRating] : in \in CalcInputs}
    \cup {[op |-> "call", fn |-> "GetClassification", score |-> score] :
             score \in -MaxAbsScore .. MaxAbsScore}

InitPure ==
    /\ users = {}
    /\ userObj = <<>>
    /\ nEvents = 0
    /\ ret \in PendingCalls
    /\ recalc = Idle
    /\ resources = {}
    /\ resObj = <<>>
    /\ inflight = NoCall

CallCalculateReputation ==
    /\ ret.op = "call"
    /\ ret.fn = "CalculateReputation"
    /\ ret' = [op |-> "CalculateReputation", uploads |-> ret.uploads,
               downloads |-> ret.downloads, avgRating |-> ret.avgRating,
               val |-> CalculateReputation(ret.uploads, ret.downloads, ret.avgRating)]
    /\ UNCHANGED <<resources, resObj, users, userObj, nEvents, recalc, inflight>>

CallGetClassification ==
    /\ ret.op = "call"
    /\ ret.fn = "GetClassification"
    /\ ret' = [op |-> "GetClassification", score |-> ret.score,
               services |-> GetClassificationForScore(ret.score),
               models |-> GetClassification(ret.score)]
    /\ UNCHANGED <<resources, resObj, users, userObj, nEvents, recalc, inflight>>

NextPure ==
    \/ CallCalculateReputation
    \/ CallGetClassification

SpecPure == InitPure /\ [][NextPure]_vars

(***************************************************************************)
(* C1.  For uploads, downloads >= 0 and an average rating r in [0,5],      *)
(* CalculateReputation returns max(-100, 2*uploads - downloads + t) where  *)
(* t is 10*r truncated toward zero, the integer with t <= 10*r < t+1: the  *)
(* result is at least -100 and is not clamped from above; the five rows    *)
(* of the test table give 0, 115, -20, 50 and 240.                         *)
(***************************************************************************)
ScoreOf(uploads, downloads, r) ==
    LET t == CHOOSE k \in 0 .. 60 : k * r.d <= 10 * r.n /\ 10 * r.n < (k + 1) * r.d
        raw == 2 * uploads - downloads + t
    IN  IF raw < -100 THEN -100 ELSE raw

C1_ScoreFormula ==
    /\ ret.op = "CalculateReputation" =>
          /\ ret.val = ScoreOf(ret.uploads, ret.downloads, ret.avgRating)
          /\ ret.val >= -100
    /\ CalculateReputation(0, 0, RatInt(0)) = 0
    /\ CalculateReputation(50, 30, Rat(45, 10)) = 115
    /\ CalculateReputation(5, 50, RatInt(2)) = -20
    /\ CalculateReputation(20, 20, RatInt(3)) = 50
    /\ CalculateReputation(100, 10, RatInt(5)) = 240

\* A call whose raw score is below the floor and whose rating term is truncated.
C1_Witness ==
    /\ ret.op = "CalculateReputation"
    /\ ret.val = -100
    /\ 2 * ret.uploads - ret.downloads + TruncInt(RatMul(ret.avgRating, RatInt(10))) < -100
    /\ (10 * ret.avgRating.n) % ret.avgRating.d # 0

(***************************************************************************)
(* C2.  Classification is total and first-match: Contributor iff s > 50,   *)
(* Neutral iff 0 <= s <= 50, Leecher iff s < 0, and the two                *)
(* implementations (services.GetClassificationForScore and                 *)
(* models.GetClassification) return the same tier for every s.             *)
(***************************************************************************)
C2_Classification ==
    /\ ret.op = "GetClassification" =>
          /\ ret.services \in {"Contributor", "Neutral", "Leecher"}
          /\ ret.services = "Contributor" <=> ret.score > 50
          /\ ret.services = "Neutral" <=> (0 <= ret.score /\ ret.score <= 50)
          /\ ret.services = "Leecher" <=> ret.score < 0
          /\ ret.models = ret.services
    /\ GetClassificationForScore(51) = "Contributor"
    /\ GetClassificationForScore(50) = "Neutral"
    /\ GetClassificationForScore(0) = "Neutral"
    /\ GetClassificationForScore(-1) = "Leecher"

\* The boundary score 50 has been classified.
C2_Witness ==
    /\ ret.op = "GetClassification"
    /\ ret.score = 50
    /\ ret.services = "Neutral"

(***************************************************************************)
(* C3.  In every state reached from the empty store by CreateUser,         *)
(* RecordUpload, RecordDownload, UpdateRatingReceived and RecalculateAll,  *)
(* run one at a time, every stored account's tier is the classification of *)
(* its stored score; an account just created has score 0, all counters 0   *)
(* and tier Neutral.                                                       *)
(***************************************************************************)
TierOf(score) ==
    IF score > 50 THEN "Contributor" ELSE IF score >= 0 THEN "Neutral" ELSE "Leecher"

C3_TierMatchesScore ==
    /\ \A id \in users : userObj[id].Classification = TierOf(userObj[id].Reputation)
    /\ ret.op = "CreateUser" =>
          /\ ret.err = Nil
          /\ ret.userID \in users
          /\ userObj[ret.userID] =
                [ID |-> ret.userID, Reputation |-> 0, Classification |-> "Neutral",
                 TotalUploads |-> 0, TotalDownloads |-> 0, AverageRating |-> RatInt(0)]

\* An account that downloads brought back from Contributor to the boundary
\* score 50 is stored as Neutral.
C3_Witness ==
    \E id \in users :
        /\ userObj[id].Reputation = 50
        /\ userObj[id].TotalDownloads > 0
        /\ userObj[id].Classification = "Neutral"

(***************************************************************************)
(* C4.  A RecalculateAll that runs alone leaves every stored account with  *)
(* Reputation = CalculateReputation(TotalUploads, TotalDownloads,          *)
(* AverageRating) and Classification = classify(Reputation), and leaves    *)
(* the set of stored accounts and every account's counters as they were.   *)
(***************************************************************************)
C4_RecalculateAll ==
    [][ret'.op = "RecalculateAll" =>
          /\ ret'.err = Nil
          /\ users' = users
          /\ DOMAIN userObj' = DOMAIN userObj
          /\ \A id \in users :
                LET a == userObj'[id]
                    b == userObj[id]
                IN  /\ a.Reputation = CalculateReputation(a.TotalUploads, a.TotalDownloads,
                                                          a.AverageRating)
                    /\ a.Classification = TierOf(a.Reputation)
                    /\ a.ID = b.ID
                    /\ a.TotalUploads = b.TotalUploads
                    /\ a.TotalDownloads = b.TotalDownloads
                    /\ a.AverageRating = b.AverageRating]_vars

\* RecalculateAll has returned on a store of two accounts that both received
\* a rating, so both scores had drifted from the formula before the call.
C4_Witness ==
    /\ ret.op = "RecalculateAll"
    /\ Cardinality(users) = 2
    /\ \A id \in users :
          /\ userObj[id].AverageRating # RatInt(0)
          /\ userObj[id].Reputation = CalculateReputation(userObj[id].TotalUploads,
                                                          userObj[id].TotalDownloads,
                                                          userObj[id].AverageRating)

(***************************************************************************)
(* C6.  GetNetworkStats returns TotalUsers = the number of stored accounts *)
(* and, for each tier, the number of stored accounts stored with that      *)
(* tier, so the three counts add up to TotalUsers; AverageScore is the     *)
(* float64 quotient of the sum of the stored scores by TotalUsers (its     *)
(* float64 product with TotalUsers is that sum whenever TotalUsers divides *)
(* the sum); on an empty store every field is zero and the error is nil;   *)
(* no account changes.  For accounts with 30 uploads, 10 uploads and 50    *)
(* downloads the counts are 1 Contributor, 1 Neutral and 1 Leecher.        *)
(***************************************************************************)
RECURSIVE SumScores(_)
SumScores(S) ==
    IF S = {} THEN 0
    ELSE LET id == CHOOSE x \in S : TRUE
         IN  userObj[id].Reputation + SumScores(S \ {id})

StoredWithTier(tier) == Cardinality({id \in users : userObj[id].Classification = tier})

RECURSIVE Log2(_)
Log2(n) == IF n < 2 THEN 0 ELSE 1 + Log2(n \div 2)

\* The float64 product f * float64(n) for a small integer n >= 1.
Float64TimesInt(f, n) ==
    IF f.class # "finite" THEN f
    ELSE LET t4 == f.mant[4] * n
             t3 == f.mant[3] * n + t4 \div Float64Base
             t2 == f.mant[2] * n + t3 \div Float64Base
             t1 == f.mant[1] * n + t2 \div Float64Base
             top == n + t1 \div Float64Base
             l1 == t1 % Float64Base
             l2 == t2 % Float64Base
             l3 == t3 % Float64Base
             l4 == t4 % Float64Base
             k == Log2(top)
             P == 2 ^ k
             Q == Float64Base \div P
             guard == IF k = 0 THEN 0 ELSE (l4 \div (P \div 2)) % 2
             sticky == k > 0 /\ l4 % (P \div 2) # 0
         IN  Float64Round(f.neg, f.exp + k,
                          <<(top % P) * Q + l1 \div P, (l1 % P) * Q + l2 \div P,
                            (l2 % P) * Q + l3 \div P, (l3 % P) * Q + l4 \div P>>,
                          guard, sticky)

StatsExact ==
    ret.op = "GetNetworkStats" =>
        /\ ret.err = Nil
        /\ ret.val.TotalUsers = Cardinality(users)
        /\ ret.val.Contributors = StoredWithTier("Contributor")
        /\ ret.val.Neutral = StoredWithTier("Neutral")
        /\ ret.val.Leechers = StoredWithTier("Leecher")
        /\ ret.val.Contributors + ret.val.Neutral + ret.val.Leechers = ret.val.TotalUsers
        /\ users = {} =>
              ret.val = [TotalUsers |-> 0, Contributors |-> 0, Neutral |-> 0,
                         Leechers |-> 0, AverageScore |-> Float64Zero]
        /\ users # {} =>
              /\ ret.val.AverageScore = Float64Div(SumScores(users), Cardinality(users))
              /\ SumScores(users) % Cardinality(users) = 0 =>
                    Float64TimesInt(ret.val.AverageScore, ret.val.TotalUsers)
                        = Float64Div(SumScores(users), 1)
        /\ ( /\ users = {1, 2, 3}
             /\ userObj[1].TotalUploads = 30 /\ userObj[1].TotalDownloads = 0
             /\ userObj[2].TotalUploads = 10 /\ userObj[2].TotalDownloads = 0
             /\ userObj[3].TotalUploads = 0 /\ userObj[3].TotalDownloads = 50 )
           => ret.val.Contributors = 1 /\ ret.val.Neutral = 1 /\ ret.val.Leechers = 1

C6_NetworkStats ==
    /\ []StatsExact
    /\ [][ret'.op = "GetNetworkStats" => UNCHANGED <<users, userObj>>]_vars

\* The statistics have been read on the store of the test: three accounts
\* with 30 uploads, 10 uploads and 50 downloads, one in each tier.
C6_Witness ==
    /\ ret.op = "GetNetworkStats"
    /\ users = {1, 2, 3}
    /\ userObj[1].TotalUploads = 30
    /\ userObj[2].TotalUploads = 10
    /\ userObj[3].TotalDownloads = 50
    /\ ret.val.Contributors = 1 /\ ret.val.Neutral = 1 /\ ret.val.Leechers = 1

\* The statement as first made: AverageScore * TotalUsers is the sum of the
\* stored scores on every non-empty store.
C6_MeanTimesCountIsSum ==
    (ret.op = "GetNetworkStats" /\ users # {}) =>
        Float64TimesInt(ret.val.AverageScore, ret.val.TotalUsers)
            = Float64Div(SumScores(users), 1)

(***************************************************************************)
(* C7.  CheckAccessAllowed(userID, requiredScore) on a stored account      *)
(* fails iff the account's stored score < requiredScore, so a score equal  *)
(* to requiredScore succeeds; the failure is a ReputationError carrying    *)
(* exactly (userID, requiredScore, the stored score, "access resource");   *)
(* whether it fails or succeeds, the store is left as it was.              *)
(***************************************************************************)
AccessChecked ==
    (ret.op = "CheckAccessAllowed" /\ ret.userID \in users) =>
        LET current == userObj[ret.userID].Reputation
        IN  /\ ret.err # [kind |-> "nil"] <=> current < ret.requiredScore
            /\ ret.err # [kind |-> "nil"] =>
                  ret.err = [kind |-> "ReputationError", UserID |-> ret.userID,
                             Required |-> ret.requiredScore, Current |-> current,
                             Action |-> "access resource"]

C7_CheckAccessAllowed ==
    /\ []AccessChecked
    /\ [][ret'.op = "CheckAccessAllowed" => UNCHANGED <<users, userObj>>]_vars

\* An access check has succeeded for a Leecher whose negative score is
\* exactly the required score.
C7_Witness ==
    /\ ret.op = "CheckAccessAllowed"
    /\ ret.userID \in users
    /\ userObj[ret.userID].Reputation = ret.requiredScore
    /\ ret.requiredScore < 0
    /\ ret.err.kind = "nil"

(***************************************************************************)
(* C8.  For an account id absent from the store, each of Calculate,        *)
(* GetUserReputation, CheckAccessAllowed, GetThrottleSpeed, RecordUpload,  *)
(* RecordDownload and UpdateRatingReceived returns the not-found error of  *)
(* the store's GetUser for that id, neither wrapped nor turned into        *)
(* success, and leaves the store as it was: the account is not created.    *)
(***************************************************************************)
AccountOps ==
    {"Calculate", "GetUserReputation", "CheckAccessAllowed", "GetThrottleSpeed",
     "RecordUpload", "RecordDownload", "UpdateRatingReceived"}

C8_NotFoundPropagates ==
    [][(ret'.op \in AccountOps /\ ret'.userID \notin users) =>
          /\ ret'.err = [kind |-> "NotFoundError", ResourceType |-> "user",
                         Identifier |-> ret'.userID]
          /\ users' = users
          /\ userObj' = userObj]_vars

\* A rating was sent to the never-issued id 0 on a non-empty store and came
\* back as a not-found error.
C8_Witness ==
    /\ ret.op = "UpdateRatingReceived"
    /\ ret.userID = 0
    /\ users # {}
    /\ ret.err.kind = "NotFoundError"

(***************************************************************************)
(* C5.  RecalculateAll is best-effort.  Each iteration recomputes the      *)
(* enumerated account's score and tier from its counters; when UpdateUser  *)
(* fails because the account was removed after the enumeration, the        *)
(* account stays out of the store (it is not re-created) and the loop goes *)
(* on to the next enumerated account; no other account is removed or       *)
(* changed by the iteration; the call returns nil once every enumerated    *)
(* account has had its iteration.                                          *)
(***************************************************************************)
C5_BestEffort ==
    [][/\ (recalc.pc = "loop" /\ recalc'.pc = "loop") =>
             /\ recalc'.list = recalc.list
             /\ recalc'.i \in {recalc.i, recalc.i + 1}
             /\ recalc'.i = recalc.i + 1 =>
                   LET id == recalc.list[recalc.i]
                       a == userObj'[id]
                       b == userObj[id]
                   IN  /\ users' = users
                       /\ a.Reputation = CalculateReputation(a.TotalUploads,
                                             a.TotalDownloads, a.AverageRating)
                       /\ a.Classification = TierOf(a.Reputation)
                       /\ a.TotalUploads = b.TotalUploads
                       /\ a.TotalDownloads = b.TotalDownloads
                       /\ a.AverageRating = b.AverageRating
                       /\ \A other \in DOMAIN userObj \ {id} :
                             userObj'[other] = userObj[other]
                       /\ id \notin users => id \in recalc'.skipped
       /\ (recalc.pc = "loop" /\ recalc'.pc = "idle") =>
             /\ ret'.op = "RecalculateAll"
             /\ ret'.err = [kind |-> "nil"]
             /\ recalc.i = Len(recalc.list) + 1
             /\ users' = users
             /\ userObj' = userObj
             /\ recalc.skipped \cap users = {}]_vars

\* RecalculateAll has returned nil from a run that enumerated two accounts,
\* skipped the first because it had been removed, and still recomputed and
\* persisted the second, whose score had drifted after a rating.
C5_Witness ==
    /\ ret.op = "RecalculateAll"
    /\ ret.err = Nil
    /\ recalc.pc = "idle"
    /\ Len(recalc.list) = 2
    /\ recalc.skipped = {recalc.list[1]}
    /\ recalc.list[1] \notin users
    /\ recalc.list[2] \in users
    /\ userObj[recalc.list[2]].AverageRating # RatInt(0)
    /\ userObj[recalc.list[2]].Reputation =
          CalculateReputation(userObj[recalc.list[2]].TotalUploads,
                              userObj[recalc.list[2]].TotalDownloads,
                              userObj[recalc.list[2]].AverageRating)

(***************************************************************************)
(* C9.  Search computes relevance on the trimmed, lower-cased query.  For  *)
(* a non-empty query a resource's relevance is 3.0 if its title contains   *)
(* the query, plus 2.0 if its filename does, plus 1.5 if its subject does  *)
(* (substring ignoring case; at most 6.5), and a resource of relevance 0   *)
(* is in no result; for an empty or all-blank query every resource has     *)
(* relevance 1.0 and none is left out for its relevance.                   *)
(***************************************************************************)
ContainsIgnoringCase(s, q) ==
    \E i \in 0 .. Len(s) - Len(q) :
        \A k \in 1 .. Len(q) : ToLowerChar(s[i + k]) = ToLowerChar(q[k])

\* q is raw without its leading and trailing blanks, in lower case.
IsTrimmedLowerCased(q, raw) ==
    \E a, b \in 0 .. Len(raw) :
        /\ a + b <= Len(raw)
        /\ \A k \in 1 .. a : raw[k] = " "
        /\ \A k \in Len(raw) - b + 1 .. Len(raw) : raw[k] = " "
        /\ Len(q) = Len(raw) - a - b
        /\ \A k \in 1 .. Len(q) : q[k] = ToLowerChar(raw[a + k])
        /\ q # <<>> => q[1] # " " /\ q[Len(q)] # " "

\* The relevance the rule gives the stored resource id for the query q, in tenths.
RelevanceTenths(id, q) ==
    IF q = <<>> THEN 10
    ELSE (IF ContainsIgnoringCase(resObj[id].Title, q) THEN 30 ELSE 0)
         + (IF ContainsIgnoringCase(resObj[id].Filename, q) THEN 20 ELSE 0)
         + (IF ContainsIgnoringCase(resObj[id].Subject, q) THEN 15 ELSE 0)

NoFilter(f) == f.Subject = <<>> /\ f.Type = "" /\ f.MinRating = RatInt(0)

C9_Relevance ==
    ret.op = "Search" =>
        LET q == ret.val.Query
            results == ret.val.Results
        IN  /\ IsTrimmedLowerCased(q, ret.query)
            /\ \A i \in 1 .. Len(results) :
                  /\ results[i].Resource \in resources
                  /\ 10 * results[i].Relevance.n
                        = RelevanceTenths(results[i].Resource, q) * results[i].Relevance.d
                  /\ RelevanceTenths(results[i].Resource, q) \in 1 .. 65
            /\ NoFilter(ret.filters) =>
                  ret.val.TotalCount
                      = Cardinality({id \in resources : RelevanceTenths(id, q) > 0})
            /\ (q = <<>> /\ NoFilter(ret.filters)) =>
                  ret.val.TotalCount = Cardinality(resources)

\* The query " A " has found, among two stored resources, the one whose
\* title, filename and subject all contain "a" in some case (relevance 6.5)
\* and has left out the other, which has relevance 0.
C9_Witness ==
    /\ ret.op = "Search"
    /\ ret.query = <<" ", "A", " ">>
    /\ NoFilter(ret.filters)
    /\ Cardinality(resources) = 2
    /\ ret.val.TotalCount = 1
    /\ Len(ret.val.Results) = 1
    /\ ret.val.Results[1].Relevance = Rat(13, 2)

(***************************************************************************)
(* C10.  A resource that passes relevance is in the match set of Search    *)
(* iff it passes every filter that is set: its subject equals              *)
(* filters.Subject ignoring case when that is non-empty, its type equals   *)
(* filters.Type when that is non-empty, and its average rating is >=       *)
(* filters.MinRating when that is > 0.  An empty or zero filter value      *)
(* filters nothing, and Search returns no error.                           *)
(***************************************************************************)
SameIgnoringCase(s, t) ==
    Len(s) = Len(t) /\ \A k \in 1 .. Len(s) : ToLowerChar(s[k]) = ToLowerChar(t[k])

PassesFilters(id, f) ==
    /\ f.Subject # <<>> => SameIgnoringCase(resObj[id].Subject, f.Subject)
    /\ f.Type # "" => resObj[id].Type = f.Type
    /\ f.MinRating.n > 0 =>
          resObj[id].AverageRating.n * f.MinRating.d
              >= f.MinRating.n * resObj[id].AverageRating.d

MatchSet == {id \in resources : RelevanceTenths(id, ret.val.Query) > 0
                                   /\ PassesFilters(id, ret.filters)}

C10_Filters ==
    ret.op = "Search" =>
        LET results == ret.val.Results
            shown == {results[i].Resource : i \in 1 .. Len(results)}
        IN  /\ ret.err = [kind |-> "nil"]
            /\ ret.val.TotalCount = Cardinality(MatchSet)
            /\ shown \subseteq MatchSet
            /\ Cardinality(shown) = Len(results)
            /\ (ret.filters.Page = Int64Of(1) /\ ret.filters.PageSize = 10) => shown = MatchSet

\* A search with the three filters set has matched a stored document whose
\* subject differs from the filter's in case only and whose average rating
\* is exactly the minimum asked for.
C10_Witness ==
    /\ ret.op = "Search"
    /\ ret.filters.Subject = <<"A">>
    /\ ret.filters.Type = "document"
    /\ ret.filters.MinRating = RatInt(3)
    /\ ret.val.TotalCount = 1
    /\ \E id \in resources :
          /\ ret.val.Results[1].Resource = id
          /\ resObj[id].Subject = <<"a">>
          /\ resObj[id].AverageRating = RatInt(3)

(***************************************************************************)
(* C11.  The full match list of Search, before pagination, is ordered by   *)
(* the selected key (average rating for sort_by = "rating", download count *)
(* for "downloads", relevance otherwise): non-increasing when the order is *)
(* "desc", non-decreasing for every other order; and it is a permutation   *)
(* of the matches, none added, dropped or duplicated.                      *)
(***************************************************************************)
\* The key of the stored resource id under the search in ret, in tenths.
SortKeyTenths(id) ==
    IF ret.filters.SortBy = "rating"
    THEN (10 * resObj[id].AverageRating.n) \div resObj[id].AverageRating.d
    ELSE IF ret.filters.SortBy = "downloads"
    THEN 10 * resObj[id].DownloadCount
    ELSE RelevanceTenths(id, ret.val.Query)

\* The page returned is the whole match list.
WholeListReturned ==
    /\ ret.op = "Search"
    /\ ret.filters.Page = Int64Of(1)
    /\ ret.filters.PageSize >= ret.val.TotalCount

C11_SortedPermutation ==
    WholeListReturned =>
        LET results == ret.val.Results
            key(i) == SortKeyTenths(results[i].Resource)
        IN  /\ Len(results) = Cardinality(MatchSet)
            /\ {results[i].Resource : i \in 1 .. Len(results)} = MatchSet
            /\ \A i, j \in 1 .. Len(results) :
                  i < j => /\ results[i].Resource # results[j].Resource
                           /\ IF ret.filters.SortOrder = "desc"
                              THEN key(i) >= key(j)
                              ELSE key(i) <= key(j)

\* A descending search by rating has returned three resources, the rated one
\* before the two unrated ones.
C11_Witness ==
    /\ WholeListReturned
    /\ ret.filters.SortBy = "rating"
    /\ Len(ret.val.Results) = 3
    /\ LET key(i) == SortKeyTenths(ret.val.Results[i].Resource)
       IN  /\ ret.filters.SortOrder = "desc"
           /\ key(1) = 30
           /\ key(2) = 0
           /\ key(3) = 0

(***************************************************************************)
(* C12.  For page >= 1 and pageSize >= 1, Search returns as TotalCount the *)
(* number of resources that pass relevance and all filters, whatever the   *)
(* page and pageSize, and as Results the elements at the positions         *)
(* [offset, min(offset + pageSize, TotalCount)) of the sorted match list,  *)
(* offset = (page - 1) * pageSize; when offset >= TotalCount the page is   *)
(* empty, and no error is returned.                                        *)
(***************************************************************************)
\* L lists every match once, ordered by the key of the search in ret.
IsSortedMatchList(L) ==
    /\ Len(L) = Cardinality(MatchSet)
    /\ {L[i] : i \in 1 .. Len(L)} = MatchSet
    /\ \A i, j \in 1 .. Len(L) :
          i < j => IF ret.filters.SortOrder = "desc"
                   THEN SortKeyTenths(L[i]) >= SortKeyTenths(L[j])
                   ELSE SortKeyTenths(L[i]) <= SortKeyTenths(L[j])

\* The resources of the returned page are L from position first to last.
PageIsSlice(L, first, last) ==
    /\ Len(ret.val.Results) = (IF last >= first THEN last - first + 1 ELSE 0)
    /\ \A k \in 1 .. Len(ret.val.Results) :
          ret.val.Results[k].Resource = L[first + k - 1]

\* Page and pageSize are at least 1; a page beyond 2^31 has its offset beyond
\* every match list.
C12_Page ==
    (/\ ret.op \in {"Search", "SearchPanic"}
     /\ ~Int64Negative(ret.filters.Page)
     /\ ret.filters.Page # Int64Of(0)
     /\ ret.filters.PageSize >= 1) =>
        /\ ret.op = "Search"
        /\ ret.err = [kind |-> "nil"]
        /\ ret.val.TotalCount = Cardinality(MatchSet)
        /\ IF ~Int64Small(ret.filters.Page)
           THEN ret.val.Results = <<>>
           ELSE LET total == Cardinality(MatchSet)
                    offset == (Int64ToInt(ret.filters.Page) - 1) * ret.filters.PageSize
                    upto == IF offset + ret.filters.PageSize < total
                            THEN offset + ret.filters.PageSize ELSE total
                IN  /\ offset >= total => ret.val.Results = <<>>
                    /\ \E L \in [1 .. total -> resources] :
                          IsSortedMatchList(L) /\ PageIsSlice(L, offset + 1, upto)

\* The second page of two has returned the last of three matches.
C12_Witness ==
    /\ ret.op = "Search"
    /\ ret.filters.Page = Int64Of(2)
    /\ ret.filters.PageSize = 2
    /\ ret.val.TotalCount = 3
    /\ Len(ret.val.Results) = 1

(***************************************************************************)
(* C13.  Pagination replaces a page below 1 by 1 and a pageSize below 1,   *)
(* unset (0) or negative, by 10: for every page and pageSize, Search does  *)
(* what it does for page' = max(page, 1) and pageSize' = pageSize if       *)
(* pageSize >= 1 and 10 otherwise.                                         *)
(***************************************************************************)
ClampedPage == IF Int64Less(ret.filters.Page, Int64Of(1)) THEN Int64Of(1)
               ELSE ret.filters.Page

\* With the page size taken as size, the search in ret has done what the
\* inputs ClampedPage and size ask for: returned the slice they select from
\* a sorted match list, or panicked on an offset that overflows.
BehavesAsPageSize(size) ==
    CASE ret.op = "SearchPanic" ->
            Int64Negative(Int64MulInt(Int64Add(ClampedPage, Int64Of(-1)), size))
      [] ret.op = "Search" /\ ~Int64Small(ClampedPage) -> ret.val.Results = <<>>
      [] ret.op = "Search" /\ Int64Small(ClampedPage) ->
            LET total == Cardinality(MatchSet)
                offset == (Int64ToInt(ClampedPage) - 1) * size
                upto == IF offset + size < total THEN offset + size ELSE total
            IN  \E L \in [1 .. total -> resources] :
                    IsSortedMatchList(L) /\ PageIsSlice(L, offset + 1, upto)
      [] OTHER -> TRUE

C14_Deterministic ==
    [][(/\ ret.op = "Search"
        /\ ret'.op = "Search"
        /\ ret'.query = ret.query
        /\ ret'.filters = ret.filters
        /\ UNCHANGED <<resources, resObj>>)
         => ret'.val.Results = ret.val.Results]_vars

(***************************************************************************)
(* C15.  For a fixed query, filters, sort and pageSize >= 1 on an          *)
(* unchanged collection, the Results of Search for page 1, 2, ...,         *)
(* ceil(TotalCount / pageSize), concatenated in this order, hold every     *)
(* matching resource exactly once, in the sorted order, and every later    *)
(* page is empty.                                                          *)
(***************************************************************************)
RECURSIVE PagesConcatenated(_, _)
PagesConcatenated(pages, n) ==
    IF n = 0 THEN <<>> ELSE PagesConcatenated(pages, n - 1) \o pages[n]

C15_PagesCoverMatches ==
    ret.op = "ReadAllPages" =>
        LET size == ret.filters.PageSize
            last == (ret.val.TotalCount + size - 1) \div size
            read == PagesConcatenated(ret.pages, last)
        IN  /\ IsSortedMatchList([i \in 1 .. Len(read) |-> read[i].Resource])
            /\ \A pg \in DOMAIN ret.pages : pg > last => ret.pages[pg] = <<>>

(***************************************************************************)
(* C16.  Readers are serialized against writers for a whole pass: while a  *)
(* GetNetworkStats pass iterates the collection it obtained from the       *)
(* store, no concurrent RecordUpload or RecordDownload changes a record    *)
(* the pass has not finished reading, so the pass never observes an        *)
(* account whose tier disagrees with its score (a mixture of field values  *)
(* from before and after an update).                                       *)
(***************************************************************************)
\* The accounts the pass in progress has not finished reading.
Unread == {recalc.list[k] : k \in recalc.i .. Len(recalc.list)}

\* Every account the pass has read both fields of had a tier fitting its score.
ObservedConsistent ==
    (recalc.pc = "stats" \/ ret.op = "GetNetworkStats") =>
        \A k \in 1 .. Len(recalc.seen) :
            recalc.seen[k].Classification # "" =>
                recalc.seen[k].Classification = TierOf(recalc.seen[k].Reputation)

C16_PassSerialized ==
    /\ []ObservedConsistent
    /\ [][(recalc.pc = "stats" /\ recalc'.pc = "stats") =>
              \A id \in Unread : userObj'[id] = userObj[id]]_vars

(***************************************************************************)
(* C17.  GetThrottleMultiplier maps Contributor to 1.0, Neutral to 0.7,    *)
(* Leecher to 0.3 and every other tier value to 0.5.  For every stored     *)
(* account, GetThrottleSpeed and the Throttle of GetUserReputation are the *)
(* multiplier of the account's stored tier, hence one of 1.0, 0.7 and 0.3  *)
(* (never the default 0.5), and of two stored accounts the one with the    *)
(* higher score never has the lower multiplier.                            *)
(***************************************************************************)
\* The multiplier of a tier value, in tenths.
ThrottleTenths(tier) ==
    CASE tier = "Contributor" -> 10
      [] tier = "Neutral" -> 7
      [] tier = "Leecher" -> 3
      [] OTHER -> 5

\* The float f is the number of tenths given.
IsTenths(f, tenths) == 10 * f.n = tenths * f.d

C17_Throttle ==
    /\ ret.op = "GetThrottleMultiplier" =>
          IsTenths(ret.val, ThrottleTenths(ret.classification))
    /\ (ret.op = "GetThrottleSpeed" /\ ret.userID \in users) =>
          /\ ret.err = [kind |-> "nil"]
          /\ IsTenths(ret.val, ThrottleTenths(userObj[ret.userID].Classification))
          /\ \E tenths \in {10, 7, 3} : IsTenths(ret.val, tenths)
    /\ (ret.op = "GetUserReputation" /\ ret.userID \in users) =>
          /\ ret.err = [kind |-> "nil"]
          /\ IsTenths(ret.val.Throttle, ThrottleTenths(userObj[ret.userID].Classification))
          /\ \E tenths \in {10, 7, 3} : IsTenths(ret.val.Throttle, tenths)
    /\ \A a, b \in users :
          userObj[a].Reputation > userObj[b].Reputation =>
              ThrottleTenths(userObj[a].Classification)
                  >= ThrottleTenths(userObj[b].Classification)

\* GetThrottleSpeed has returned 1.0 for an account that uploaded its way
\* to Contributor, next to an account with a lower score.
C17_Witness ==
    /\ ret.op = "GetThrottleSpeed"
    /\ ret.userID \in users
    /\ userObj[ret.userID].Reputation > 50
    /\ ret.val = [n |-> 1, d |-> 1]
    /\ \E b \in users : userObj[b].Reputation < userObj[ret.userID].Reputation


(***************************************************************************)
(* C18                                                                     *)
(***************************************************************************)
\* s comes before t in byte order: they agree on a prefix after which s ends
\* and t goes on, or s has the smaller byte.
LexBefore(s, t) ==
    \E k \in 0 .. Len(s) :
        /\ k <= Len(t)
        /\ \A i \in 1 .. k : s[i] = t[i]
        /\ \/ k = Len(s) /\ k < Len(t)
           \/ k < Len(s) /\ k < Len(t) /\ CharCode(s[k + 1]) < CharCode(t[k + 1])

\* The titles and subjects of stored resources that hold partial as a
\* substring when case is ignored.
MatchingStrings(partial) ==
    {s \in {resObj[id].Title : id \in resources} \cup {resObj[id].Subject : id \in resources} :
        \E i \in 0 .. Len(s) - Len(partial) :
            \A j \in 1 .. Len(partial) : ToLowerChar(s[i + j]) = ToLowerChar(partial[j])}

\* C18: the list GetSuggestions returns has no duplicates, is in ascending
\* byte order and holds at most 10 entries; every entry is the title or the
\* subject of a stored resource and holds partial as a substring when case is
\* ignored; when at most 10 distinct titles and subjects match, all of them
\* are returned, and otherwise the 10 smallest.
C18_Suggestions ==
    ret.op = "GetSuggestions" =>
        LET res == ret.val
            matching == MatchingStrings(ret.partial)
            returned == {res[i] : i \in 1 .. Len(res)}
        IN  /\ \A i, j \in 1 .. Len(res) : i < j => LexBefore(res[i], res[j])
            /\ Len(res) <= 10
            /\ returned \subseteq matching
            /\ Cardinality(matching) <= 10 => returned = matching
            /\ Cardinality(matching) > 10 =>
                   /\ Len(res) = 10
                   /\ \A s \in matching \ returned : \A t \in returned : LexBefore(t, s)

\* A call with an upper-case partial that more than 10 distinct titles and
\* subjects match, one of them shared by two resources, returned 10 entries.
C18_Witness ==
    /\ ret.op = "GetSuggestions"
    /\ ret.partial = <<"A">>
    /\ Cardinality(MatchingStrings(ret.partial)) > 10
    /\ Len(ret.val) = 10
    /\ \E a, b \in resources : a # b /\ resObj[a].Subject = resObj[b].Title
(***************************************************************************)
(* C19                                                                     *)
(***************************************************************************)
\* The list L holds exactly the resources of the set S, each once.
HoldsEachOnce(L, S) ==
    /\ {L[i] : i \in 1 .. Len(L)} = S
    /\ Len(L) = Cardinality(S)

LookupResults ==
    /\ ret.op = "SearchBySubject" =>
           HoldsEachOnce(ret.val, {id \in resources :
                                      SameIgnoringCase(resObj[id].Subject, ret.subject)})
    /\ ret.op = "SearchByTag" =>
           HoldsEachOnce(ret.val, {id \in resources :
                                      \E j \in 1 .. Len(resObj[id].Tags) :
                                          SameIgnoringCase(resObj[id].Tags[j], ret.tag)})

\* C19: SearchBySubject(s) returns exactly the stored resources whose subject
\* equals s ignoring case, and SearchByTag(t) exactly those with at least one
\* tag equal to t ignoring case, each once and all of them (nothing is ranked
\* or cut to a page); neither call changes the store.
C19_Lookup ==
    /\ []LookupResults
    /\ [][ret'.op \in {"SearchBySubject", "SearchByTag"} =>
              /\ resources' = resources
              /\ resObj' = resObj
              /\ users' = users
              /\ userObj' = userObj]_vars

\* SearchByTag found a resource two of whose tags match, and one more.
C19_Witness ==
    /\ ret.op = "SearchByTag"
    /\ Len(ret.val) >= 2
    /\ \E i \in 1 .. Len(ret.val) :
           Cardinality({j \in 1 .. Len(resObj[ret.val[i]].Tags) :
                           SameIgnoringCase(resObj[ret.val[i]].Tags[j], ret.tag)}) >= 2
    /\ \E id \in resources : \A i \in 1 .. Len(ret.val) : ret.val[i] # id
(***************************************************************************)
(* C20                                                                     *)
(***************************************************************************)
\* C20: in every state reachable through CreateUser, RecordUpload,
\* RecordDownload, UpdateRatingReceived and RecalculateAll, the Reputation of
\* every stored account is at least LowReputation.
C20_Floor == \A id \in users : userObj[id].Reputation >= LowReputation
(***************************************************************************)
(* C21                                                                     *)
(***************************************************************************)
\* The step changed, of the account u, the counter named field by one and the
\* score by gain, set the tier that belongs to the new score, and left the
\* rest of u, every other account and every resource as they were.
OnlyCounted(u, field, gain) ==
    /\ userObj'[u][field] = userObj[u][field] + 1
    /\ userObj'[u].Reputation = userObj[u].Reputation + gain
    /\ userObj'[u].Classification = TierOf(userObj'[u].Reputation)
    /\ userObj' = [userObj EXCEPT ![u] = [@ EXCEPT ![field] = userObj'[u][field],
                                                   !.Reputation = userObj'[u].Reputation,
                                                   !.Classification = userObj'[u].Classification]]
    /\ users' = users
    /\ resources' = resources
    /\ resObj' = resObj

\* C21: a successful RecordUpload(u) raises u's TotalUploads by 1 and u's
\* Reputation by 2, a successful RecordDownload(u) raises u's TotalDownloads
\* by 1 and lowers u's Reputation by 1; each sets u's tier from the new score
\* and changes no other field of u, no other account and no resource.
C21_RecordEffects ==
    [][/\ (ret'.op = "RecordUpload" /\ ret'.err = Nil) =>
              OnlyCounted(ret'.userID, "TotalUploads", 2)
       /\ (ret'.op = "RecordDownload" /\ ret'.err = Nil) =>
              OnlyCounted(ret'.userID, "TotalDownloads", -1)]_vars

\* A first download took an account from Neutral to Leecher while another
\* account, which has an upload, is stored.
C21_Witness ==
    /\ ret.op = "RecordDownload"
    /\ ret.err = Nil
    /\ userObj[ret.userID].Classification = ClassLeecher
    /\ userObj[ret.userID].TotalDownloads = 1
    /\ \E other \in users : userObj[other].TotalUploads > 0
    /\ \E other \in users : other # ret.userID
(***************************************************************************)
(* C22                                                                     *)
(***************************************************************************)
\* C22: after RateResource has added a valid rating to a resource of a stored
\* account, the uploader's stored AverageRating and Reputation reflect the
\* rating: the AverageRating is an average of valid ratings, so at least
\* MinRating, and the Reputation is the score of the uploader's counters with
\* that AverageRating.
C22_UploaderRated ==
    (/\ ret.op = "RateResource"
     /\ ret.err = Nil
     /\ resObj[ret.resourceID].TotalRatings > 0
     /\ resObj[ret.resourceID].UploadedBy \in users) =>
        LET uploader == userObj[resObj[ret.resourceID].UploadedBy]
        IN  /\ RatLeq(RatInt(MinRating), uploader.AverageRating)
            /\ uploader.Reputation >= 2 * uploader.TotalUploads
                                          - uploader.TotalDownloads + 10 * MinRating
(***************************************************************************)
(* C23                                                                     *)
(***************************************************************************)
\* 2 * TotalUploads - TotalDownloads of a stored account.
Balance(id) == 2 * userObj[id].TotalUploads - userObj[id].TotalDownloads

IncrementalIsCalculated ==
    /\ \A id \in users :
           Balance(id) >= -100 => userObj[id].Reputation = Balance(id)
    /\ (ret.op = "Calculate" /\ ret.err = Nil /\ Balance(ret.userID) >= -100) =>
           ret.val = userObj[ret.userID].Reputation

\* C23: run one at a time, an account that CreateUser made and that went
\* through RecordUpload and RecordDownload calls ending with
\* 2 * TotalUploads - TotalDownloads >= -100 holds that number as its
\* Reputation, which is CalculateReputation of its counters and rating 0;
\* Calculate returns the stored Reputation, and a RecalculateAll that follows
\* changes no account.
C23_IncrementalMatches ==
    /\ []IncrementalIsCalculated
    /\ [][(ret'.op = "RecalculateAll" /\ \A id \in users : Balance(id) >= -100) =>
              (userObj' = userObj /\ users' = users)]_vars

\* Calculate on an account with an upload and more than 100 downloads whose
\* counters balance at exactly -100.
C23_Witness ==
    /\ ret.op = "Calculate"
    /\ ret.err = Nil
    /\ userObj[ret.userID].TotalUploads >= 1
    /\ Balance(ret.userID) = -100
    /\ ret.val = -100
(***************************************************************************)
(* C24                                                                     *)
(***************************************************************************)
\* The callers whose RecordUpload on the account id has returned without error.
Returned(id) ==
    {w \in Writers : /\ inflight[w].pc = "done"
                     /\ inflight[w].userID = id
                     /\ inflight[w].err = Nil}

\* C24: when the RecordUpload calls that ran concurrently on an account have
\* all returned, k of them without error, the account's TotalUploads has
\* grown by k and its Reputation by 2k: no update is lost.
C24_NoLostUpdate ==
    (\A w \in Writers : inflight[w].pc \in {"idle", "done"}) =>
        \A id \in users :
            /\ userObj[id].TotalUploads = Cardinality(Returned(id))
            /\ userObj[id].Reputation = 2 * Cardinality(Returned(id))
(***************************************************************************)
(* C25                                                                     *)
(***************************************************************************)
\* C25: when RecalculateAll ran concurrently with RecordUpload and
\* RecordDownload calls on accounts without ratings whose score stays above
\* -100, then, once every call has returned, each account's stored
\* Reputation is the score of its counters and its tier is the tier of that
\* Reputation.
C25_SettledAfterRace ==
    (inflight.pc = "idle" /\ recalc.pc = "idle") =>
        \A id \in users :
            (userObj[id].AverageRating = RatInt(0) /\ Balance(id) > -100) =>
                /\ userObj[id].Reputation = Balance(id)
                /\ userObj[id].Classification = TierOf(userObj[id].Reputation)
(***************************************************************************)
(* C26                                                                     *)
(***************************************************************************)
\* The step stored one resource under an id that was free, a resource that
\* passes every check of Upload, and counted the upload for the uploader when
\* that is a stored account; it changed nothing else.
StoredOneResource ==
    \E id \in resources' \ resources :
        /\ resources' = resources \cup {id}
        /\ DOMAIN resObj' = DOMAIN resObj \cup {id}
        /\ \A other \in DOMAIN resObj : resObj'[other] = resObj[other]
        /\ resObj'[id].ID = id
        /\ resObj'[id].Filename # <<>>
        /\ resObj'[id].Size > 0
        /\ resObj'[id].Size <= MaxFileSize
        /\ resObj'[id].Extension \in AllowedFileTypes
        /\ users' = users
        /\ LET u == resObj'[id].UploadedBy
           IN  IF u \in users
               THEN userObj' = [userObj EXCEPT ![u] =
                                   [@ EXCEPT !.TotalUploads = @ + 1,
                                             !.Reputation = @ + 2,
                                             !.Classification = TierOf(userObj[u].Reputation + 2)]]
               ELSE userObj' = userObj

\* C26: an Upload either fails, and then the resources and the accounts are
\* as before (a stored resource with the same id is not overwritten), or
\* succeeds, and then the file has a name, a size in 1 .. MaxFileSize, an
\* allowed extension and an id that was free, the resource is stored under
\* that id, and no account is created or changed when the uploader is unknown.
C26_Upload ==
    [][ret'.op = "Upload" =>
          IF ret'.err # Nil
          THEN /\ resources' = resources
               /\ resObj' = resObj
               /\ users' = users
               /\ userObj' = userObj
          ELSE StoredOneResource]_vars

\* Resources are stored, one uploaded by an unknown account and one by a
\* stored account, and the last Upload failed because its id is taken.
C26_Witness ==
    /\ ret.op = "Upload"
    /\ ret.err = NewOperationError("Upload", "failed to store resource", ErrAlreadyExists)
    /\ \E a, b \in resources :
           /\ resObj[a].UploadedBy \notin users
           /\ resObj[b].UploadedBy \in users
           /\ userObj[resObj[b].UploadedBy].TotalUploads > 0
(***************************************************************************)
(* C27                                                                     *)
(***************************************************************************)
\* C27: a successful Download raises the DownloadCount of its resource by 1,
\* also when the downloader is unknown (no account changes then), and changes
\* no other resource; a Download of an unknown id returns not-found and
\* changes no resource and no account; no step of Upload, Download or the
\* rating handler lowers a DownloadCount.
C27_DownloadCount ==
    [][/\ (ret'.op = "Download" /\ ret'.err = Nil) =>
              /\ ret'.resourceID \in resources
              /\ resources' = resources
              /\ resObj' = [resObj EXCEPT ![ret'.resourceID].DownloadCount = @ + 1]
              /\ ret'.userID \notin users => (users' = users /\ userObj' = userObj)
       /\ (ret'.op = "Download" /\ ret'.err # Nil) =>
              /\ ret'.resourceID \notin resources
              /\ ret'.err = NewNotFoundError("resource", ret'.resourceID)
              /\ resources' = resources
              /\ resObj' = resObj
              /\ users' = users
              /\ userObj' = userObj
       /\ (ret'.op = "Download" /\ ret'.resourceID \notin resources) => ret'.err # Nil
       /\ \A id \in resources :
              /\ id \in resources'
              /\ resObj'[id].DownloadCount >= resObj[id].DownloadCount]_vars

\* An unknown account downloaded a resource that had been downloaded before,
\* while another resource and an account are stored.
C27_Witness ==
    /\ ret.op = "Download"
    /\ ret.err = Nil
    /\ ret.userID \notin users
    /\ users # {}
    /\ resObj[ret.resourceID].DownloadCount = 2
    /\ \E other \in resources : other # ret.resourceID
(***************************************************************************)
(* C28                                                                     *)
(***************************************************************************)
\* The float64 f lies in [1, 5].
Float64InOneToFive(f) ==
    /\ f.class = "finite"
    /\ ~f.neg
    /\ f.exp \in {0, 1, 2}
    /\ f.exp = 2 =>
           \/ f.mant[1] < Float64Base \div 4
           \/ f.mant = <<Float64Base \div 4, 0, 0, 0>>

RatingsConsistent ==
    \A id \in resources :
        LET r == resObj[id]
        IN  /\ r.TotalRatings >= 0
            /\ r.TotalRatings = 0 =>
                   (r.RatingSum = RatInt(0) /\ Float64AverageRating(r) = Float64Zero)
            /\ r.TotalRatings > 0 =>
                   /\ Float64InOneToFive(Float64AverageRating(r))
                   /\ r.RatingSum.n % r.TotalRatings = 0 =>
                          Float64TimesInt(Float64AverageRating(r), r.TotalRatings)
                              = Float64Div(r.RatingSum.n, 1)

RanksTop(L, S, key, limit) ==
    LET wanted == IF limit < 0 THEN 0 ELSE limit
        n == IF wanted > Cardinality(S) THEN Cardinality(S) ELSE wanted
        held == {L[i] : i \in 1 .. Len(L)}
    IN  /\ Len(L) = n
        /\ held \subseteq S
        /\ Cardinality(held) = n
        /\ \A i \in 1 .. Len(L) - 1 : key[L[i]] >= key[L[i + 1]]
        /\ \A out \in S \ held : \A in \in held : key[out] <= key[in]

\* C29: GetPopular(limit) and GetLeaderboard(limit) complete without a
\* runtime failure for every integer limit, negative limits and 0 included,
\* and return min(max(limit, 0), N) items in non-increasing order of
\* DownloadCount / Reputation, none of the omitted items ranking above a
\* returned one.
C29_Ranking ==
    /\ ret.op \notin {"GetPopularPanic", "GetLeaderboardPanic"}
    /\ ret.op = "GetPopular" =>
           RanksTop(ret.val, resources, [id \in resources |-> resObj[id].DownloadCount],
                    ret.limit)
    /\ ret.op = "GetLeaderboard" =>
           RanksTop(ret.val, users, [id \in users |-> userObj[id].Reputation], ret.limit)
(***************************************************************************)
(* C30                                                                     *)
(***************************************************************************)
\* C30: after start-up (seedDemoData, then RecalculateAll) alice and bob are
\* Contributor, diana and eve are Neutral and charlie is Leecher.
C30_SeedTiers ==
    (ret.op = "RecalculateAll" /\ users = 1 .. 5) =>
        /\ userObj[1].Classification = "Contributor"
        /\ userObj[2].Classification = "Contributor"
        /\ userObj[4].Classification = "Neutral"
        /\ userObj[5].Classification = "Neutral"
        /\ userObj[3].Classification = "Leecher"
====
